---- MODULE Spec2Model ----
(***************************************************************************)
(* Model of the in-memory order/product service: the Database singleton's   *)
(* two Maps and id counters, ProductService, OrderService + OrderFacade,    *)
(* the discount strategies and the EventSubject with its observers.         *)
(*                                                                          *)
(* Encodings                                                                *)
(*  - JS strings that the code trims, measures or lower-cases are sequences *)
(*    of one-character strings; <<>> is the empty string.                   *)
(*  - An absent (undefined) property is a field missing from the record.    *)
(*  - Counts (stock, quantity) are fixed-point numbers in half units, so    *)
(*    that a non-integer such as 1.5 can be submitted: Num(n) is the        *)
(*    integer n, Num(n) + 1 is n + 0.5.                                     *)
(*  - Money is an integer; the prices used are multiples of 100, so the     *)
(*    percentage computations (x * p) / 100 are exact.                      *)
(*  - createdAt / updatedAt timestamps are read by no code path and are     *)
(*    left out of the records.                                              *)
(*  - A Product / Order object is identified by its id: the services never  *)
(*    reset the counters, so an id names one object until Database.clearAll *)
(*    empties both Maps.  productObj and orderObj are the objects; products *)
(*    and orders are the key lists of the two Maps (insertion order).       *)
(***************************************************************************)
EXTENDS Integers, Sequences, FiniteSets, TLC

\* ---------------------------------------------------------------- bounds
MaxProducts == 1
MaxOrders == 2
MaxEvents == 3
PipelineProducts == 2
MaxDeliveries == 10
MaxTasks == 2
MaxInstances == 2

\* ------------------------------------------------------ number encoding
Num(n) == 2 * n
IsInteger(x) == x % 2 = 0

Has(data, f) == f \in DOMAIN data

Max(a, b) == IF a >= b THEN a ELSE b
Min(a, b) == IF a <= b THEN a ELSE b

\* ------------------------------------------------------ string helpers
RECURSIVE TrimLeft(_)
TrimLeft(s) == IF s # <<>> /\ Head(s) = " " THEN TrimLeft(Tail(s)) ELSE s

RECURSIVE TrimRight(_)
TrimRight(s) ==
  IF s # <<>> /\ s[Len(s)] = " " THEN TrimRight(SubSeq(s, 1, Len(s) - 1)) ELSE s

Trim(s) == TrimRight(TrimLeft(s))

LowerChar(c) ==
  CASE c = "K" -> "k"
    [] c = "M" -> "m"
    [] c = "B" -> "b"
    [] OTHER -> c

ToLowerCase(s) == [i \in 1..Len(s) |-> LowerChar(s[i])]

\* ------------------------------------------------------------ variables
VARIABLES
  products,          \* Database #data.products: keys of the Map, insertion order
  productObj,        \* the Product objects, by id
  orders,            \* Database #data.orders: keys of the Map, insertion order
  orderObj,          \* the Order objects, by id
  counters,          \* Database #data.counters
  assigned,          \* history: the ids each store handed out, since
                     \* construction (ever) and since the last clearAll,
                     \* and the stock each product object was created with
  database,          \* the Database class: whether the static #instance is
                     \* set (its counters are the variable counters), and
                     \* the counters of each Database object that was
                     \* constructed directly
  tasks,             \* the calls in flight that are interleaved at their
                     \* awaits: per task the operation, its position and
                     \* its local variables
  discountStrategy,  \* OrderFacade.discountStrategy
  observers,         \* EventSubject.observers
  logs,              \* AuditLogObserver.logs
  statistics,        \* StatisticsObserver.statistics
  published,         \* the events passed to notify so far
  deliveries,        \* the observer.update calls made so far, in order:
                     \* <<observer, event>>
  lastCall,          \* the last service call: operation, outcome, id involved
  hist               \* after a successful createOrder, and after the
                     \* cancelOrder that directly follows it on the same
                     \* order: the stocks before the createOrder

vars == <<products, productObj, orders, orderObj, counters, assigned, tasks,
          database,
          discountStrategy,
          observers, logs, statistics, published, deliveries, lastCall,
          hist>>

InSeq(x, s) == \E i \in 1..Len(s) : s[i] = x

RemoveKey(s, k) == SelectSeq(s, LAMBDA x : x # k)

\* a set that moves an existing key to the end
MapSetLast(keys, id) == Append(SelectSeq(keys, LAMBDA x : x # id), id)

\* Map.set(id, value): an existing key keeps its position, a new one is appended
MapSet(keys, id) == IF InSeq(id, keys) THEN keys ELSE Append(keys, id)

\* -------------------------------------------------------------- Product
\* new Product(id, name, description, price, stock, category)
NewProduct(id, name, description, price, stock, category) ==
  [id |-> id, name |-> name, description |-> description, price |-> price,
   stock |-> stock, category |-> category]

\* Product.update(data): truthy name/description/price/category, defined stock
ProductUpdate(p, data) ==
  [p EXCEPT
     !.name = IF Has(data, "name") /\ data.name # <<>> THEN data.name ELSE @,
     !.description = IF Has(data, "description") /\ data.description # <<>>
                     THEN data.description ELSE @,
     !.price = IF Has(data, "price") /\ data.price # 0 THEN data.price ELSE @,
     !.stock = IF Has(data, "stock") THEN data.stock ELSE @,
     !.category = IF Has(data, "category") /\ data.category # <<>>
                  THEN data.category ELSE @]

\* hasStock that only asks whether anything is left
hasStockAny(p, quantity) == p.stock > 0

\* hasStock that grants one unit more than is left
hasStockOneMore(p, quantity) == p.stock + Num(1) >= quantity

hasStock(p, quantity) == p.stock >= quantity

\* Product.reduceStock: throws when hasStock fails (error |-> TRUE)
reduceStock(p, quantity) ==
  IF ~hasStock(p, quantity)
  THEN [error |-> TRUE, product |-> p]
  ELSE [error |-> FALSE, product |-> [p EXCEPT !.stock = @ - quantity]]

\* increaseStock that assigns the quantity instead of adding it
increaseStockAssign(p, quantity) == [p EXCEPT !.stock = quantity]

increaseStock(p, quantity) == [p EXCEPT !.stock = @ + quantity]

\* Product.toJSON
ProductToJSON(p) ==
  [id |-> p.id, name |-> p.name, description |-> p.description,
   price |-> p.price, stock |-> p.stock, category |-> p.category]

\* ---------------------------------------------------- ProductRepository
\* findById: the object under the key, or null (0)
ProductFindById(keys, id) == IF InSeq(id, keys) THEN id ELSE 0

\* Database.getNextProductId: ++counters.products
getNextProductIdByCount(keys, c) == Len(keys) + 1
getNextProductId(keys, c) == c.products + 1

\* ProductRepository.delete(id) -> [error, keys]
ProductRepoDelete(keys, id) ==
  IF ProductFindById(keys, id) = 0
  THEN [error |-> TRUE, keys |-> keys]
  ELSE [error |-> FALSE, keys |-> RemoveKey(keys, id)]

\* ProductRepository.findAll: the stored Product objects in insertion order
ProductFindAll(keys, objs) == [i \in 1..Len(keys) |-> objs[keys[i]]]

\* existsByName that compares the names as they are written
existsByNameExact(keys, objs, name) ==
  \E i \in 1..Len(keys) : objs[keys[i]].name = name

\* existsByName: some stored product has the same lower-cased name
existsByName(keys, objs, name) ==
  \E i \in 1..Len(keys) :
     ToLowerCase(objs[keys[i]].name) = ToLowerCase(name)

\* ProductRepository.update(id, updatedData) -> [error, objs, keys]
ProductRepoUpdate(keys, objs, id, updatedData) ==
  IF ProductFindById(keys, id) = 0
  THEN [error |-> TRUE, objs |-> objs, keys |-> keys]
  ELSE [error |-> FALSE,
        objs |-> [objs EXCEPT ![id] = ProductUpdate(@, updatedData)],
        keys |-> MapSet(keys, id)]

\* ------------------------------------------ product validation strategies
ProductValidate(productData) ==
  LET nameErr ==
        IF ~Has(productData, "name") \/ productData.name = <<>>
           \/ Len(Trim(productData.name)) = 0
        THEN <<"Nome do produto e obrigatorio">>
        ELSE IF Len(productData.name) < 3
        THEN <<"Nome do produto deve ter no minimo 3 caracteres">>
        ELSE IF Len(productData.name) > 100
        THEN <<"Nome do produto deve ter no maximo 100 caracteres">>
        ELSE <<>>
      priceErr ==
        IF ~Has(productData, "price") THEN <<"Preco e obrigatorio">>
        ELSE IF productData.price < 0 THEN <<"Preco nao pode ser negativo">>
        ELSE IF productData.price = 0 THEN <<"Preco deve ser maior que zero">>
        ELSE <<>>
      stockErr ==
        IF ~Has(productData, "stock") THEN <<"Estoque e obrigatorio">>
        ELSE IF ~IsInteger(productData.stock)
        THEN <<"Estoque deve ser um numero inteiro">>
        ELSE IF productData.stock < 0 THEN <<"Estoque nao pode ser negativo">>
        ELSE <<>>
      categoryErr ==
        IF ~Has(productData, "category") \/ productData.category = <<>>
           \/ Len(Trim(productData.category)) = 0
        THEN <<"Categoria e obrigatoria">>
        ELSE <<>>
      descriptionErr ==
        IF Has(productData, "description") /\ productData.description # <<>>
           /\ Len(productData.description) > 500
        THEN <<"Descricao deve ter no maximo 500 caracteres">>
        ELSE <<>>
  IN nameErr \o priceErr \o stockErr \o categoryErr \o descriptionErr

ProductUpdateValidate(updateData) ==
  LET nameErr ==
        IF ~Has(updateData, "name") THEN <<>>
        ELSE IF Len(Trim(updateData.name)) = 0 THEN <<"Nome nao pode ser vazio">>
        ELSE IF Len(updateData.name) < 3
        THEN <<"Nome deve ter no minimo 3 caracteres">>
        ELSE IF Len(updateData.name) > 100
        THEN <<"Nome deve ter no maximo 100 caracteres">>
        ELSE <<>>
      priceErr ==
        IF ~Has(updateData, "price") THEN <<>>
        ELSE IF updateData.price < 0 THEN <<"Preco nao pode ser negativo">>
        ELSE IF updateData.price = 0 THEN <<"Preco deve ser maior que zero">>
        ELSE <<>>
      stockErr ==
        IF ~Has(updateData, "stock") THEN <<>>
        ELSE IF ~IsInteger(updateData.stock)
        THEN <<"Estoque deve ser um numero inteiro">>
        ELSE IF updateData.stock < 0 THEN <<"Estoque nao pode ser negativo">>
        ELSE <<>>
      categoryErr ==
        IF Has(updateData, "category") /\ Len(Trim(updateData.category)) = 0
        THEN <<"Categoria nao pode ser vazia">>
        ELSE <<>>
      descriptionErr ==
        IF Has(updateData, "description") /\ Len(updateData.description) > 500
        THEN <<"Descricao deve ter no maximo 500 caracteres">>
        ELSE <<>>
  IN nameErr \o priceErr \o stockErr \o categoryErr \o descriptionErr

\* ---------------------------------------------------------------- Order
STATUS == {"PENDING", "PROCESSING", "COMPLETED", "CANCELLED"}

\* OrderItem.getSubtotal: quantity * unitPrice (quantity is in half units)
getSubtotal(item) == (item.quantity * item.unitPrice) \div 2

RECURSIVE SumSubtotals(_)
SumSubtotals(items) ==
  IF items = <<>> THEN 0 ELSE getSubtotal(Head(items)) + SumSubtotals(Tail(items))

\* recalculateTotal without the clamp at zero
recalculateTotalNoClamp(o) ==
  LET sub == SumSubtotals(o.items)
  IN [o EXCEPT !.subtotal = sub, !.total = sub - o.discount]

\* Order.recalculateTotal
recalculateTotal(o) ==
  LET sub == SumSubtotals(o.items)
  IN [o EXCEPT !.subtotal = sub, !.total = Max(0, sub - o.discount)]

\* new Order(id, customerId, customerName)
NewOrder(id, customerId, customerName) ==
  [id |-> id, customerId |-> customerId, customerName |-> customerName,
   items |-> <<>>, status |-> "PENDING", subtotal |-> 0, discount |-> 0,
   total |-> 0]

\* Order.addItem(product, quantity): the item keeps a reference to the Product
\* object and a copy of its current price
addItem(o, product, quantity) ==
  recalculateTotal(
    [o EXCEPT !.items = Append(@, [product |-> product.id,
                                   quantity |-> quantity,
                                   unitPrice |-> product.price])])

\* Order.applyDiscount
applyDiscount(o, discountAmount) ==
  recalculateTotal([o EXCEPT !.discount = discountAmount])

\* updateStatus without the membership check
updateStatusUnchecked(o, newStatus) ==
  [error |-> FALSE, order |-> [o EXCEPT !.status = newStatus]]

\* updateStatus that validates the status but never assigns it
updateStatusNoAssign(o, newStatus) ==
  IF newStatus \notin STATUS
  THEN [error |-> TRUE, order |-> o]
  ELSE [error |-> FALSE, order |-> o]

\* updateStatus that takes any non-empty status
updateStatusAnyName(o, newStatus) ==
  IF newStatus = ""
  THEN [error |-> TRUE, order |-> o]
  ELSE [error |-> FALSE, order |-> [o EXCEPT !.status = newStatus]]

\* Order.updateStatus: throws on a status outside Order.STATUS
updateStatus(o, newStatus) ==
  IF newStatus \notin STATUS
  THEN [error |-> TRUE, order |-> o]
  ELSE [error |-> FALSE, order |-> [o EXCEPT !.status = newStatus]]

\* canBeCancelled that only refuses a completed order
canBeCancelledUnlessCompleted(o) == o.status # "COMPLETED"

canBeCancelled(o) == o.status = "PENDING" \/ o.status = "PROCESSING"

\* Order.cancel: throws unless canBeCancelled
cancel(o) ==
  IF ~canBeCancelled(o)
  THEN [error |-> TRUE, order |-> o]
  ELSE [error |-> FALSE, order |-> [o EXCEPT !.status = "CANCELLED"]]

\* OrderItem.toJSON that reads the price from the product
ItemToJSONLivePrice(item, objs) ==
  [productId |-> objs[item.product].id,
   productName |-> objs[item.product].name,
   quantity |-> item.quantity, unitPrice |-> objs[item.product].price,
   subtotal |-> (item.quantity * objs[item.product].price) \div 2]

\* OrderItem.toJSON: id and name are read from the referenced Product object
ItemToJSON(item, objs) ==
  [productId |-> objs[item.product].id,
   productName |-> objs[item.product].name,
   quantity |-> item.quantity, unitPrice |-> item.unitPrice,
   subtotal |-> getSubtotal(item)]

\* toJSON that reports the subtotal as the total
OrderToJSONGross(o, objs) ==
  [id |-> o.id, customerId |-> o.customerId, customerName |-> o.customerName,
   items |-> [i \in 1..Len(o.items) |-> ItemToJSON(o.items[i], objs)],
   status |-> o.status, subtotal |-> o.subtotal, discount |-> o.discount,
   total |-> o.subtotal]

\* Order.toJSON
OrderToJSON(o, objs) ==
  [id |-> o.id, customerId |-> o.customerId, customerName |-> o.customerName,
   items |-> [i \in 1..Len(o.items) |-> ItemToJSON(o.items[i], objs)],
   status |-> o.status, subtotal |-> o.subtotal, discount |-> o.discount,
   total |-> o.total]

\* ------------------------------------------------------ OrderRepository
OrderFindById(keys, id) == IF InSeq(id, keys) THEN id ELSE 0

\* Database.getNextOrderId: ++counters.orders
getNextOrderId(c) == c.orders + 1

\* OrderRepository.update(id, order) -> [error, objs, keys]
OrderRepoUpdate(keys, objs, id, order) ==
  IF OrderFindById(keys, id) = 0
  THEN [error |-> TRUE, objs |-> objs, keys |-> keys]
  ELSE [error |-> FALSE, objs |-> [objs EXCEPT ![id] = order],
        keys |-> MapSet(keys, id)]

\* OrderRepository.delete(id) -> [error, keys]
OrderRepoDeleteAlways(keys, id) ==
  [error |-> FALSE, keys |-> RemoveKey(keys, id)]
OrderRepoDelete(keys, id) ==
  IF OrderFindById(keys, id) = 0
  THEN [error |-> TRUE, keys |-> keys]
  ELSE [error |-> FALSE, keys |-> RemoveKey(keys, id)]

\* OrderRepository.findAll: the stored Order objects in insertion order
OrderFindAll(keys, objs) == [i \in 1..Len(keys) |-> objs[keys[i]]]

\* OrderRepository.getTotalSales: the totals of the COMPLETED orders
RECURSIVE getTotalSales(_)
getTotalSales(all) ==
  IF all = <<>> THEN 0
  ELSE (IF Head(all).status = "COMPLETED" THEN Head(all).total ELSE 0)
       + getTotalSales(Tail(all))

\* OrderRepository.getStatistics
OrderRepoStatistics(keys, objs) ==
  LET all == OrderFindAll(keys, objs)
      count(status) == Cardinality({i \in 1..Len(all) : all[i].status = status})
  IN [total |-> Len(all),
      pending |-> count("PENDING"),
      processing |-> count("PROCESSING"),
      completed |-> count("COMPLETED"),
      cancelled |-> count("CANCELLED"),
      totalSales |-> getTotalSales(all)]

\* <Strategy>.getDescription: the text names the kind of policy and its
\* parameters; a coupon's minimum only when it is above 0
getDescription(strategy) ==
  IF strategy.type \in {"percentage", "first-order"}
  THEN [text |-> strategy.type, percentage |-> strategy.percentage]
  ELSE IF strategy.type = "fixed"
  THEN [text |-> strategy.type, amount |-> strategy.amount]
  ELSE IF strategy.type = "coupon"
  THEN IF strategy.minOrderValue > 0
       THEN [text |-> "coupon", couponCode |-> strategy.couponCode,
             discountPercentage |-> strategy.discountPercentage,
             minOrderValue |-> strategy.minOrderValue]
       ELSE [text |-> "coupon", couponCode |-> strategy.couponCode,
             discountPercentage |-> strategy.discountPercentage]
  ELSE [text |-> strategy.type]

\* getOrderDetails that describes the policy the order's discount shows
getOrderDetailsOfOrder(objs, pobjs, strategy, orderId) ==
  [order |-> OrderToJSON(objs[orderId], pobjs),
   discountStrategy |->
     IF objs[orderId].discount = 0 THEN [text |-> "none"]
     ELSE getDescription(strategy)]

\* OrderFacade.getOrderDetails(orderId), for a stored order: toJSON of the
\* order plus the description of the strategy in force
getOrderDetails(objs, pobjs, strategy, orderId) ==
  [order |-> OrderToJSON(objs[orderId], pobjs),
   discountStrategy |-> getDescription(strategy)]

\* --------------------------------------------------- discount strategies
NoDiscount == [type |-> "none"]
Percentage(p) == [type |-> "percentage", percentage |-> p]
FixedAmount(a) == [type |-> "fixed", amount |-> a]
Tiered == [type |-> "tiered"]
FirstOrder(p) == [type |-> "first-order", percentage |-> p]
BlackFriday == [type |-> "black-friday"]
Coupon(code, p, m) ==
  [type |-> "coupon", couponCode |-> code, discountPercentage |-> p,
   minOrderValue |-> m]

\* new CouponDiscountStrategy(couponCode, discountPercentage, minOrderValue),
\* the last argument optional
NewCoupon(args) ==
  Coupon(args.couponCode, args.discountPercentage,
         IF Has(args, "minOrderValue") THEN args.minOrderValue ELSE 0)

\* a constructor without the range check
NewPercentageUnchecked(percentage) ==
  [error |-> FALSE, strategy |-> Percentage(percentage)]

\* new PercentageDiscountStrategy(percentage) -> [error, strategy]
NewPercentage(percentage) ==
  IF percentage < 0 \/ percentage > 100
  THEN [error |-> TRUE, strategy |-> NoDiscount]
  ELSE [error |-> FALSE, strategy |-> Percentage(percentage)]

\* new FixedAmountDiscountStrategy(amount) -> [error, strategy]
NewFixedAmount(amount) ==
  IF amount < 0
  THEN [error |-> TRUE, strategy |-> NoDiscount]
  ELSE [error |-> FALSE, strategy |-> FixedAmount(amount)]

\* TieredDiscountStrategy.tiers, in the order find() scans them
tiers ==
  << [minValue |-> 1000, percentage |-> 15],
     [minValue |-> 500, percentage |-> 10],
     [minValue |-> 200, percentage |-> 5],
     [minValue |-> 0, percentage |-> 0] >>

\* find that returns the last tier whose minValue the total reaches
FindTierLast(orderTotal) ==
  LET hits == {i \in 1..Len(tiers) : orderTotal >= tiers[i].minValue}
  IN tiers[CHOOSE i \in hits : \A j \in hits : i >= j]

\* Array.find: the first tier whose minValue the total reaches
FindTier(orderTotal) ==
  LET hits == {i \in 1..Len(tiers) : orderTotal >= tiers[i].minValue}
  IN tiers[CHOOSE i \in hits : \A j \in hits : i <= j]

\* calculate with a coupon that also excludes its minimum order value
calculateCouponAbove(strategy, orderTotal) ==
  CASE strategy.type = "none" -> 0
    [] strategy.type = "percentage" ->
         (orderTotal * strategy.percentage) \div 100
    [] strategy.type = "fixed" -> Min(strategy.amount, orderTotal)
    [] strategy.type = "tiered" ->
         (orderTotal * FindTier(orderTotal).percentage) \div 100
    [] strategy.type = "first-order" ->
         (orderTotal * strategy.percentage) \div 100
    [] strategy.type = "black-friday" -> (orderTotal * 30) \div 100
    [] strategy.type = "coupon" ->
         IF orderTotal <= strategy.minOrderValue THEN 0
         ELSE (orderTotal * strategy.discountPercentage) \div 100

\* <Strategy>.calculate(orderTotal)
calculate(strategy, orderTotal) ==
  CASE strategy.type = "none" -> 0
    [] strategy.type = "percentage" ->
         (orderTotal * strategy.percentage) \div 100
    [] strategy.type = "fixed" -> Min(strategy.amount, orderTotal)
    [] strategy.type = "tiered" ->
         (orderTotal * FindTier(orderTotal).percentage) \div 100
    [] strategy.type = "first-order" ->
         (orderTotal * strategy.percentage) \div 100
    [] strategy.type = "black-friday" -> (orderTotal * 30) \div 100
    [] strategy.type = "coupon" ->
         IF orderTotal < strategy.minOrderValue THEN 0
         ELSE (orderTotal * strategy.discountPercentage) \div 100

\* ------------------------------------------------ observers and the bus
\* update that puts the newest entry first
AuditUpdatePrepend(lg, event) ==
  <<[type |-> event.type, data |-> event.data]>> \o lg

\* AuditLogObserver.update: append {type, data}
AuditUpdate(lg, event) == Append(lg, [type |-> event.type, data |-> event.data])

\* update that counts every status change as a completion
StatisticsUpdateAnyStatus(st, event) ==
  CASE event.type = "ORDER_CREATED" ->
         [st EXCEPT !.ordersCreated = @ + 1]
    [] event.type = "ORDER_STATUS_CHANGED" ->
         [st EXCEPT !.ordersCompleted = @ + 1,
                    !.totalRevenue = @ + event.data.order.total]
    [] event.type = "ORDER_CANCELLED" ->
         [st EXCEPT !.ordersCancelled = @ + 1]
    [] event.type = "PRODUCT_LOW_STOCK" ->
         [st EXCEPT !.lowStockAlerts = @ + 1]
    [] OTHER -> st

\* update that also counts a low-stock alert as an order
StatisticsUpdateAlertAsOrder(st, event) ==
  CASE event.type = "ORDER_CREATED" ->
         [st EXCEPT !.ordersCreated = @ + 1]
    [] event.type = "ORDER_STATUS_CHANGED" ->
         IF event.data.newStatus = "COMPLETED"
         THEN [st EXCEPT !.ordersCompleted = @ + 1,
                         !.totalRevenue = @ + event.data.order.total]
         ELSE st
    [] event.type = "ORDER_CANCELLED" ->
         [st EXCEPT !.ordersCancelled = @ + 1]
    [] event.type = "PRODUCT_LOW_STOCK" ->
         [st EXCEPT !.lowStockAlerts = @ + 1, !.ordersCreated = @ + 1]
    [] OTHER -> st

\* StatisticsObserver.update
StatisticsUpdate(st, event) ==
  CASE event.type = "ORDER_CREATED" ->
         [st EXCEPT !.ordersCreated = @ + 1]
    [] event.type = "ORDER_STATUS_CHANGED" ->
         IF event.data.newStatus = "COMPLETED"
         THEN [st EXCEPT !.ordersCompleted = @ + 1,
                         !.totalRevenue = @ + event.data.order.total]
         ELSE st
    [] event.type = "ORDER_CANCELLED" ->
         [st EXCEPT !.ordersCancelled = @ + 1]
    [] event.type = "PRODUCT_LOW_STOCK" ->
         [st EXCEPT !.lowStockAlerts = @ + 1]
    [] OTHER -> st

\* observer.update(event) for one attached observer; bus = [logs, statistics].
\* The e-mail and push observers only write to the console.
ObserverUpdate(observer, bus, event) ==
  CASE observer = "AuditLogObserver" ->
         [bus EXCEPT !.logs = AuditUpdate(@, event)]
    [] observer = "StatisticsObserver" ->
         [bus EXCEPT !.statistics = StatisticsUpdate(@, event)]
    [] OTHER -> bus

\* IObserver.update: the base class throws; the four observers override it.
\* "IObserver" is a listener that inherits both methods of the base class,
\* "NamedObserver" a subclass that overrides getName only
UpdateThrows(observer, event) == observer \in {"IObserver", "NamedObserver"}

\* IObserver.getName: the base class throws; the four observers override it
GetNameThrows(observer) == observer = "IObserver"

\* EventSubject.attach: push unless already included, then log getName()
attach(obs, observer) ==
  IF InSeq(observer, obs)
  THEN [observers |-> obs, error |-> ""]
  ELSE [observers |-> Append(obs, observer),
        error |-> IF GetNameThrows(observer) THEN "NotImplemented" ELSE ""]

\* EventSubject.detach: splice out the first occurrence, then log getName()
detach(obs, observer) ==
  IF ~InSeq(observer, obs)
  THEN [observers |-> obs, error |-> ""]
  ELSE LET index == CHOOSE i \in 1..Len(obs) :
                       obs[i] = observer /\ \A j \in 1..(i - 1) : obs[j] # observer
       IN [observers |-> SubSeq(obs, 1, index - 1)
                           \o SubSeq(obs, index + 1, Len(obs)),
           error |-> IF GetNameThrows(observer) THEN "NotImplemented" ELSE ""]

\* the forEach of EventSubject.notify: every observer, in list order; an
\* error thrown by update is caught and logged with observer.getName(), and
\* when getName throws too the error leaves notify (bus.thrown) and the
\* loop ends
RECURSIVE forEach(_, _, _)
forEach(obs, bus, event) ==
  IF obs = <<>> THEN bus
  ELSE
    LET called == [bus EXCEPT
                     !.deliveries = Append(@, <<Head(obs), event>>)]
    IN
    IF UpdateThrows(Head(obs), event)
    THEN IF GetNameThrows(Head(obs))
         THEN [called EXCEPT !.thrown = TRUE]
         ELSE forEach(Tail(obs), called, event)
    ELSE forEach(Tail(obs), ObserverUpdate(Head(obs), called, event), event)

\* EventSubject.notify
notify(obs, bus, event) ==
  forEach(obs, [bus EXCEPT !.published = Append(@, event)], event)

\* ----------------------------------------------- OrderValidationStrategy
Err(i, m) == [item |-> i, msg |-> m]

ItemErrors(item, index) ==
  (IF ~Has(item, "productId") \/ item.productId = 0
   THEN <<Err(index, "ID do produto e obrigatorio")>> ELSE <<>>)
  \o
  (IF ~Has(item, "quantity") \/ item.quantity = 0 \/ item.quantity <= 0
   THEN <<Err(index, "Quantidade deve ser maior que zero")>> ELSE <<>>)
  \o
  (IF ~Has(item, "quantity") \/ ~IsInteger(item.quantity)
   THEN <<Err(index, "Quantidade deve ser um numero inteiro")>> ELSE <<>>)

RECURSIVE AllItemErrors(_, _)
AllItemErrors(items, index) ==
  IF index > Len(items) THEN <<>>
  ELSE ItemErrors(items[index], index) \o AllItemErrors(items, index + 1)

\* a validation that stops at the first violation
OrderValidateFirst(orderData) ==
  IF ~Has(orderData, "customerId") \/ orderData.customerId = <<>>
  THEN <<Err(0, "ID do cliente e obrigatorio")>>
  ELSE IF ~Has(orderData, "customerName") \/ orderData.customerName = <<>>
          \/ Len(Trim(orderData.customerName)) = 0
  THEN <<Err(0, "Nome do cliente e obrigatorio")>>
  ELSE IF Len(orderData.customerName) < 3
  THEN <<Err(0, "Nome do cliente deve ter no minimo 3 caracteres")>>
  ELSE IF ~Has(orderData, "items")
  THEN <<Err(0, "Itens do pedido sao obrigatorios")>>
  ELSE IF Len(orderData.items) = 0
  THEN <<Err(0, "Pedido deve conter pelo menos um item")>>
  ELSE LET all == AllItemErrors(orderData.items, 1)
       IN IF all = <<>> THEN <<>> ELSE <<Head(all)>>

OrderValidate(orderData) ==
  LET idErr ==
        IF ~Has(orderData, "customerId") \/ orderData.customerId = <<>>
        THEN <<Err(0, "ID do cliente e obrigatorio")>> ELSE <<>>
      nameErr ==
        IF ~Has(orderData, "customerName") \/ orderData.customerName = <<>>
           \/ Len(Trim(orderData.customerName)) = 0
        THEN <<Err(0, "Nome do cliente e obrigatorio")>>
        ELSE IF Len(orderData.customerName) < 3
        THEN <<Err(0, "Nome do cliente deve ter no minimo 3 caracteres")>>
        ELSE <<>>
      itemsErr ==
        IF ~Has(orderData, "items")
        THEN <<Err(0, "Itens do pedido sao obrigatorios")>>
        ELSE IF Len(orderData.items) = 0
        THEN <<Err(0, "Pedido deve conter pelo menos um item")>>
        ELSE AllItemErrors(orderData.items, 1)
  IN idErr \o nameErr \o itemsErr

\* ---------------------------------------------------------- OrderFacade
\* the low-stock threshold of createOrder, in count units
LowStockThreshold == 10

\* a low-stock test that also alerts at the threshold itself
isLowStockInclusive(product) == product.stock <= Num(LowStockThreshold)

\* createOrder's test after the decrement: product.stock < 10
isLowStock(product) == product.stock < Num(LowStockThreshold)

Bus ==
  [logs |-> logs, statistics |-> statistics, published |-> published,
   deliveries |-> deliveries, thrown |-> FALSE]

\* The for-loop of createOrder over orderData.items, from item `index` on.
\* st = [order, objs, keys, bus, error]; a throw ends the loop and keeps
\* whatever the earlier iterations already wrote.
RECURSIVE ProcessItems(_, _, _)
ProcessItems(items, index, st) ==
  IF index > Len(items) \/ st.error # "" THEN st
  ELSE
    LET item == items[index]
        ref == ProductFindById(st.keys, item.productId)
    IN
    IF ref = 0 THEN [st EXCEPT !.error = "NotFound"]
    ELSE IF ~hasStock(st.objs[ref], item.quantity)
    THEN [st EXCEPT !.error = "InsufficientStock"]
    ELSE
      LET order1 == addItem(st.order, st.objs[ref], item.quantity)
          red == reduceStock(st.objs[ref], item.quantity)
          objs1 == [st.objs EXCEPT ![ref] = red.product]
          upd == ProductRepoUpdate(st.keys, objs1, objs1[ref].id, objs1[ref])
          product == upd.objs[ref]
          bus1 == IF isLowStock(product)
                  THEN notify(observers, st.bus,
                              [type |-> "PRODUCT_LOW_STOCK",
                               data |-> ProductToJSON(product)])
                  ELSE st.bus
      IN
      IF red.error THEN [st EXCEPT !.error = "InsufficientStock"]
      ELSE IF upd.error
      THEN [st EXCEPT !.order = order1, !.objs = objs1, !.error = "NotFound"]
      ELSE IF bus1.thrown
      THEN [st EXCEPT !.order = order1, !.objs = upd.objs, !.keys = upd.keys,
                      !.bus = bus1, !.error = "NotImplemented"]
      ELSE ProcessItems(items, index + 1,
                        [st EXCEPT !.order = order1, !.objs = upd.objs,
                                   !.keys = upd.keys, !.bus = bus1])

\* OrderFacade.createOrder -> [error, saved, order, objs, keys, bus];
\* saved: the order reached OrderRepository.create
FacadeCreateOrder(orderData) ==
  LET st0 == [order |-> NewOrder(0, <<>>, <<>>), objs |-> productObj,
              keys |-> products, bus |-> Bus, error |-> "", saved |-> FALSE]
  IN
  IF ~Has(orderData, "customerId") \/ orderData.customerId = <<>>
     \/ ~Has(orderData, "customerName") \/ orderData.customerName = <<>>
  THEN [st0 EXCEPT !.error = "CustomerRequired"]
  ELSE IF ~Has(orderData, "items") \/ Len(orderData.items) = 0
  THEN [st0 EXCEPT !.error = "ItemsRequired"]
  ELSE
    LET st == ProcessItems(orderData.items, 1,
                 [st0 EXCEPT !.order = NewOrder(0, orderData.customerId,
                                                orderData.customerName)])
    IN
    IF st.error # "" THEN st
    ELSE
      LET discount == calculate(discountStrategy, st.order.subtotal)
          order == applyDiscount(st.order, discount)
          \* OrderRepository.create: id = ++counters.orders
          savedOrder == [order EXCEPT !.id = getNextOrderId(counters)]
          bus1 == notify(observers, st.bus,
                         [type |-> "ORDER_CREATED",
                          data |-> OrderToJSON(savedOrder, st.objs)])
      IN [st EXCEPT
            !.order = savedOrder,
            !.saved = TRUE,
            !.bus = bus1,
            !.error = IF bus1.thrown THEN "NotImplemented" ELSE ""]

\* a restore loop that gives up at the first item whose product is gone
RECURSIVE RestoreItemsUntilMissing(_, _, _, _)
RestoreItemsUntilMissing(items, index, keys, objs) ==
  IF index > Len(items) THEN objs
  ELSE
    LET ref == ProductFindById(keys, objs[items[index].product].id)
    IN
    IF ref = 0 THEN objs
    ELSE
      LET objs1 == [objs EXCEPT ![ref] = increaseStock(@, items[index].quantity)]
          upd == ProductRepoUpdate(keys, objs1, objs1[ref].id, objs1[ref])
      IN RestoreItemsUntilMissing(items, index + 1, keys, upd.objs)

\* The restore loop of cancelOrder over order.items, from item `index` on
RECURSIVE RestoreItems(_, _, _, _)
RestoreItems(items, index, keys, objs) ==
  IF index > Len(items) THEN objs
  ELSE
    LET ref == ProductFindById(keys, objs[items[index].product].id)
    IN
    IF ref = 0 THEN RestoreItems(items, index + 1, keys, objs)
    ELSE
      LET objs1 == [objs EXCEPT ![ref] = increaseStock(@, items[index].quantity)]
          upd == ProductRepoUpdate(keys, objs1, objs1[ref].id, objs1[ref])
      IN RestoreItems(items, index + 1, keys, upd.objs)

\* ------------------------------------------------------- call bookkeeping
\* what the caller sees of the last call: the operation, the error thrown
\* ("" when it returned), the validation messages and the id involved
Call(op, arg, error, errors, id) ==
  [op |-> op, ok |-> (error = ""), error |-> error, errors |-> errors,
   id |-> id, result |-> <<>>]

\* a call that returned a value
Returned(op, id, result) ==
  [Call(op, <<>>, "", <<>>, id) EXCEPT !.result = result]

StockOfObjects == [i \in 1..Len(productObj) |-> productObj[i].stock]

productVars == <<products, productObj, counters, assigned>>

\* the history of ids after a store handed out id
Assign(store, id) ==
  [assigned EXCEPT !.ever[store] = @ \cup {id},
                   !.sinceClear[store] = @ \cup {id}]
orderVars == <<orders, orderObj>>
busVars == <<observers, logs, statistics, published, deliveries>>

\* ------------------------------------------------------- ProductService
CreateProduct(productData) ==
  LET errors == ProductValidate(productData)
      id == getNextProductId(products, counters)
      product == NewProduct(id, productData.name,
                            IF Has(productData, "description")
                            THEN productData.description ELSE <<>>,
                            productData.price, productData.stock,
                            productData.category)
  IN
  /\ UNCHANGED <<tasks, database>>
  /\ hist' = <<>>
  /\ UNCHANGED <<orderVars, busVars, discountStrategy>>
  /\ IF errors # <<>>
     THEN /\ lastCall' = Call("createProduct", <<>>, "ValidationError",
                              errors, 0)
          /\ UNCHANGED productVars
     ELSE IF existsByName(products, productObj, productData.name)
     THEN /\ lastCall' = Call("createProduct", <<>>, "DuplicateName",
                              <<>>, 0)
          /\ UNCHANGED productVars
     ELSE /\ counters' = [counters EXCEPT !.products = id]
          /\ assigned' = [Assign("products", id) EXCEPT
                            !.createdStock = Append(@, product.stock)]
          /\ productObj' = Append(productObj, product)
          /\ products' = MapSet(products, id)
          /\ lastCall' = Call("createProduct", <<>>, "", <<>>, id)

UpdateProduct(id, updateData) ==
  LET errors == ProductUpdateValidate(updateData)
      upd == ProductRepoUpdate(products, productObj, id, updateData)
  IN
  /\ UNCHANGED <<tasks, database>>
  /\ hist' = <<>>
  /\ UNCHANGED <<orderVars, busVars, discountStrategy, counters, assigned>>
  /\ IF errors # <<>>
     THEN /\ lastCall' = Call("updateProduct", <<>>,
                              "ValidationError", errors, id)
          /\ UNCHANGED <<products, productObj>>
     ELSE IF ProductFindById(products, id) = 0
     THEN /\ lastCall' = Call("updateProduct", <<>>, "NotFound",
                              <<>>, id)
          /\ UNCHANGED <<products, productObj>>
     ELSE IF /\ Has(updateData, "name") /\ updateData.name # <<>>
             /\ updateData.name # productObj[id].name
             /\ existsByName(products, productObj, updateData.name)
     THEN /\ lastCall' = Call("updateProduct", <<>>,
                              "DuplicateName", <<>>, id)
          /\ UNCHANGED <<products, productObj>>
     ELSE /\ productObj' = upd.objs
          /\ products' = upd.keys
          /\ lastCall' = Call("updateProduct", <<>>, "", <<>>, id)

DeleteProduct(id) ==
  /\ UNCHANGED <<tasks, database>>
  /\ hist' = <<>>
  /\ UNCHANGED <<orderVars, busVars, discountStrategy, counters, assigned,
                 productObj>>
  /\ IF ProductFindById(products, id) = 0
     THEN /\ lastCall' = Call("deleteProduct", <<>>, "NotFound", <<>>, id)
          /\ UNCHANGED products
     ELSE /\ products' = ProductRepoDelete(products, id).keys
          /\ lastCall' = Call("deleteProduct", <<>>, "", <<>>, id)

\* --------------------------------------------------------- OrderService
SetDiscountStrategy(strategy) ==
  /\ discountStrategy' = strategy
  /\ UNCHANGED <<tasks, database>>
  /\ hist' = <<>>
  /\ lastCall' = Call("setDiscountStrategy", <<>>, "", <<>>, 0)
  /\ UNCHANGED <<productVars, orderVars, busVars>>

CreateOrder(orderData) ==
  LET errors == OrderValidate(orderData)
  IN
  /\ UNCHANGED <<discountStrategy, observers>>
  /\ IF errors # <<>>
     THEN /\ lastCall' = Call("createOrder", orderData, "ValidationError",
                              errors, 0)
          /\ UNCHANGED <<tasks, database>>
          /\ hist' = <<>>
          /\ UNCHANGED <<productVars, orderVars, logs, statistics,
                         published, deliveries>>
     ELSE \E r \in {FacadeCreateOrder(orderData)} :
          /\ productObj' = r.objs
          /\ products' = r.keys
          /\ logs' = r.bus.logs
          /\ statistics' = r.bus.statistics
          /\ published' = r.bus.published
          /\ deliveries' = r.bus.deliveries
          /\ IF ~r.saved
             THEN /\ lastCall' = Call("createOrder", orderData, r.error, <<>>, 0)
                  /\ UNCHANGED <<tasks, database>>
                  /\ hist' = <<>>
                  /\ UNCHANGED <<orderVars, counters, assigned>>
             ELSE /\ counters' = [counters EXCEPT !.orders = r.order.id]
                  /\ assigned' = Assign("orders", r.order.id)
                  /\ orderObj' = Append(orderObj, r.order)
                  /\ orders' = MapSet(orders, r.order.id)
                  /\ UNCHANGED <<tasks, database>>
                  /\ hist' = IF r.error = "" THEN StockOfObjects ELSE <<>>
                  /\ lastCall' = Call("createOrder", orderData, r.error, <<>>,
                                      IF r.error = "" THEN r.order.id ELSE 0)

UpdateOrderStatus(orderId, newStatus) ==
  LET ref == OrderFindById(orders, orderId)
      oldStatus == orderObj[ref].status
      upd == updateStatus(orderObj[ref], newStatus)
      event == [type |-> "ORDER_STATUS_CHANGED",
                data |-> [orderId |-> orderId, oldStatus |-> oldStatus,
                          newStatus |-> newStatus,
                          order |-> OrderToJSON(upd.order, productObj)]]
      bus == notify(observers, Bus, event)
  IN
  /\ UNCHANGED <<tasks, database>>
  /\ hist' = <<>>
  /\ UNCHANGED <<productVars, discountStrategy, observers>>
  /\ IF ref = 0
     THEN /\ lastCall' = Call("updateOrderStatus", newStatus,
                              "NotFound", <<>>, orderId)
          /\ UNCHANGED <<orderVars, logs, statistics,
                         published, deliveries>>
     ELSE IF upd.error
     THEN /\ lastCall' = Call("updateOrderStatus", newStatus,
                              "InvalidStatus", <<>>, orderId)
          /\ UNCHANGED <<orderVars, logs, statistics,
                         published, deliveries>>
     ELSE /\ orderObj' = [orderObj EXCEPT ![ref] = upd.order]
          /\ orders' = MapSet(orders, orderId)
          /\ logs' = bus.logs
          /\ statistics' = bus.statistics
          /\ published' = bus.published
          /\ deliveries' = bus.deliveries
          /\ lastCall' = Call("updateOrderStatus", newStatus,
                              IF bus.thrown THEN "NotImplemented" ELSE "",
                              <<>>, orderId)

CancelOrder(orderId) ==
  LET ref == OrderFindById(orders, orderId)
      objs == RestoreItems(orderObj[ref].items, 1, products, productObj)
      cnl == cancel(orderObj[ref])
      event == [type |-> "ORDER_CANCELLED",
                data |-> OrderToJSON(cnl.order, objs)]
      bus == notify(observers, Bus, event)
  IN
  /\ UNCHANGED <<tasks, database>>
  /\ hist' = IF lastCall.op = "createOrder" /\ lastCall.ok
                 /\ lastCall.id = orderId /\ ref # 0
              THEN hist ELSE <<>>
  /\ UNCHANGED <<products, counters, assigned, discountStrategy, observers>>
  /\ IF ref = 0
     THEN /\ lastCall' = Call("cancelOrder", <<>>, "NotFound", <<>>, orderId)
          /\ UNCHANGED <<productObj, orderVars, logs, statistics,
                         published, deliveries>>
     ELSE IF ~canBeCancelled(orderObj[ref])
     THEN /\ lastCall' = Call("cancelOrder", <<>>, "InvalidState", <<>>,
                              orderId)
          /\ UNCHANGED <<productObj, orderVars, logs, statistics,
                         published, deliveries>>
     ELSE /\ productObj' = objs
          /\ orderObj' = [orderObj EXCEPT ![ref] = cnl.order]
          /\ orders' = MapSet(orders, orderId)
          /\ logs' = bus.logs
          /\ statistics' = bus.statistics
          /\ published' = bus.published
          /\ deliveries' = bus.deliveries
          /\ lastCall' = Call("cancelOrder", <<>>,
                              IF bus.thrown THEN "NotImplemented" ELSE "",
                              <<>>, orderId)

\* ------------------------------------------------ calls that interleave
\* An async method runs until its next await and is resumed later, so calls
\* in flight interleave at their awaits.  A repository method does its Map
\* lookup when it is called, before the caller is suspended.
Idle == [pc |-> "idle"]

\* a call that has returned (error = "") or thrown
Done(op, arg, error, id) ==
  [pc |-> "done", op |-> op, arg |-> arg, error |-> error, id |-> id]

Finish(t, op, arg, error, id) ==
  /\ tasks' = [tasks EXCEPT ![t] = Done(op, arg, error, id)]
  /\ lastCall' = Call(op, arg, error, <<>>, id)

\* orderService.createOrder(orderData) up to its first await: validation,
\* the checks of the facade, new Order, the lookup of the first product
CreateOrderStart(t, orderData) ==
  LET errors == OrderValidate(orderData)
  IN
  /\ tasks[t].pc = "idle"
  /\ hist' = <<>>
  /\ UNCHANGED database
  /\ UNCHANGED <<productVars, orderVars, busVars, discountStrategy>>
  /\ IF errors # <<>>
     THEN /\ tasks' = [tasks EXCEPT ![t] =
                         Done("createOrder", orderData, "ValidationError", 0)]
          /\ lastCall' = Call("createOrder", orderData, "ValidationError",
                              errors, 0)
     ELSE /\ tasks' = [tasks EXCEPT ![t] =
               [pc |-> "findProduct", op |-> "createOrder",
                arg |-> orderData, index |-> 1,
                found |-> ProductFindById(products,
                                          orderData.items[1].productId),
                order |-> NewOrder(0, orderData.customerId,
                                   orderData.customerName)]]
          /\ UNCHANGED lastCall

\* createOrder resumed after findById: the stock check, addItem, reduceStock
\* and the call of productRepository.update, without an await in between
CreateOrderItem(t) ==
  LET task == tasks[t]
      item == task.arg.items[task.index]
      ref == task.found
      red == reduceStock(productObj[ref], item.quantity)
  IN
  /\ tasks[t].pc = "findProduct"
  /\ hist' = <<>>
  /\ UNCHANGED database
  /\ UNCHANGED <<products, counters, assigned, orderVars, busVars,
                 discountStrategy>>
  /\ IF ref = 0
     THEN /\ Finish(t, "createOrder", task.arg, "NotFound", 0)
          /\ UNCHANGED productObj
     ELSE IF ~hasStock(productObj[ref], item.quantity) \/ red.error
     THEN /\ Finish(t, "createOrder", task.arg, "InsufficientStock", 0)
          /\ UNCHANGED productObj
     ELSE /\ productObj' = [productObj EXCEPT ![ref] = red.product]
          /\ tasks' = [tasks EXCEPT ![t] =
               [task EXCEPT !.pc = "updateProduct",
                            !.order = addItem(@, productObj[ref],
                                              item.quantity)]]
          /\ UNCHANGED lastCall

\* createOrder resumed after productRepository.update: the low-stock event,
\* then the lookup of the next product or, after the last item, the
\* discount and orderRepository.create
CreateOrderUpdated(t) ==
  LET task == tasks[t]
      ref == task.found
      upd == ProductRepoUpdate(products, productObj, productObj[ref].id,
                               productObj[ref])
      product == upd.objs[ref]
      bus == IF isLowStock(product)
             THEN notify(observers, Bus,
                         [type |-> "PRODUCT_LOW_STOCK",
                          data |-> ProductToJSON(product)])
             ELSE Bus
      discount == calculate(discountStrategy, task.order.subtotal)
      savedOrder == [applyDiscount(task.order, discount) EXCEPT
                       !.id = getNextOrderId(counters)]
  IN
  /\ tasks[t].pc = "updateProduct"
  /\ hist' = <<>>
  /\ UNCHANGED database
  /\ UNCHANGED <<discountStrategy, observers>>
  /\ IF upd.error
     THEN /\ Finish(t, "createOrder", task.arg, "NotFound", 0)
          /\ UNCHANGED <<productVars, orderVars, logs, statistics, published,
                         deliveries>>
     ELSE /\ products' = upd.keys
          /\ productObj' = upd.objs
          /\ logs' = bus.logs
          /\ statistics' = bus.statistics
          /\ published' = bus.published
          /\ deliveries' = bus.deliveries
          /\ IF bus.thrown
             THEN /\ Finish(t, "createOrder", task.arg, "NotImplemented", 0)
                  /\ UNCHANGED <<counters, assigned, orderVars>>
             ELSE IF task.index < Len(task.arg.items)
             THEN /\ tasks' = [tasks EXCEPT ![t] =
                       [task EXCEPT
                          !.pc = "findProduct",
                          !.index = @ + 1,
                          !.found = ProductFindById(
                                      upd.keys,
                                      task.arg.items[task.index + 1].productId)]]
                  /\ UNCHANGED <<lastCall, counters, assigned, orderVars>>
             ELSE /\ counters' = [counters EXCEPT !.orders = savedOrder.id]
                  /\ assigned' = Assign("orders", savedOrder.id)
                  /\ orderObj' = Append(orderObj, savedOrder)
                  /\ orders' = MapSet(orders, savedOrder.id)
                  /\ tasks' = [tasks EXCEPT ![t] =
                       [task EXCEPT !.pc = "created", !.order = savedOrder]]
                  /\ UNCHANGED lastCall

\* createOrder resumed after orderRepository.create: the ORDER_CREATED event
CreateOrderCreated(t) ==
  LET task == tasks[t]
      id == task.order.id
      bus == notify(observers, Bus,
                    [type |-> "ORDER_CREATED",
                     data |-> OrderToJSON(orderObj[id], productObj)])
  IN
  /\ tasks[t].pc = "created"
  /\ hist' = <<>>
  /\ UNCHANGED database
  /\ UNCHANGED <<productVars, orderVars, discountStrategy, observers>>
  /\ logs' = bus.logs
  /\ statistics' = bus.statistics
  /\ published' = bus.published
  /\ deliveries' = bus.deliveries
  /\ Finish(t, "createOrder", task.arg,
            IF bus.thrown THEN "NotImplemented" ELSE "",
            IF bus.thrown THEN 0 ELSE id)

\* ------------------------------------------------------ OrderController
\* req.body[f] || d: the default also replaces a supplied 0
OrDefault(body, f, d) == IF Has(body, f) /\ body[f] # 0 THEN body[f] ELSE d

\* the switch of OrderController.create on req.body.discountType
\* -> [error, strategy]; only the percentage and fixed constructors can throw
ControllerStrategy(body) ==
  LET discountType == IF Has(body, "discountType") THEN body.discountType
                      ELSE "none"
  IN CASE discountType = "percentage" ->
            NewPercentage(OrDefault(body, "discountValue", 10))
       [] discountType = "fixed" ->
            NewFixedAmount(OrDefault(body, "discountValue", 50))
       [] discountType = "tiered" -> [error |-> FALSE, strategy |-> Tiered]
       [] discountType = "first-order" ->
            [error |-> FALSE, strategy |-> FirstOrder(20)]
       [] discountType = "black-friday" ->
            [error |-> FALSE, strategy |-> BlackFriday]
       [] discountType = "coupon" ->
            [error |-> FALSE,
             strategy |-> Coupon(IF Has(body, "couponCode")
                                 THEN body.couponCode ELSE "WELCOME10",
                                 OrDefault(body, "discountValue", 10),
                                 OrDefault(body, "minOrderValue", 0))]
       [] OTHER -> [error |-> FALSE, strategy |-> NoDiscount]

\* POST /api/orders up to its first await: the strategy for the request is
\* set on the one OrderService, then createOrder(req.body) is started
OrderControllerCreate(t, body) ==
  LET chosen == ControllerStrategy(body)
      errors == OrderValidate(body)
  IN
  /\ tasks[t].pc = "idle"
  /\ hist' = <<>>
  /\ UNCHANGED <<productVars, orderVars, busVars, database>>
  /\ IF chosen.error
     THEN /\ Finish(t, "createOrder", body, "InvalidArgument", 0)
          /\ UNCHANGED discountStrategy
     ELSE /\ discountStrategy' = chosen.strategy
          /\ IF errors # <<>>
             THEN /\ tasks' = [tasks EXCEPT ![t] =
                       Done("createOrder", body, "ValidationError", 0)]
                  /\ lastCall' = Call("createOrder", body, "ValidationError",
                                      errors, 0)
             ELSE /\ tasks' = [tasks EXCEPT ![t] =
                       [pc |-> "findProduct", op |-> "createOrder",
                        arg |-> body, index |-> 1,
                        found |-> ProductFindById(products,
                                                  body.items[1].productId),
                        order |-> NewOrder(0, body.customerId,
                                           body.customerName)]]
                  /\ UNCHANGED lastCall

\* orderService.cancelOrder(orderId) up to its first await: the lookup of
\* the order
CancelOrderStart(t, orderId) ==
  /\ tasks[t].pc = "idle"
  /\ tasks' = [tasks EXCEPT ![t] =
       [pc |-> "findOrder", op |-> "cancelOrder", arg |-> orderId,
        order |-> OrderFindById(orders, orderId)]]
  /\ hist' = <<>>
  /\ UNCHANGED <<productVars, orderVars, busVars, discountStrategy, lastCall,
                 database>>

\* cancelOrder resumed after orderRepository.findById: the not-found and
\* canBeCancelled checks and the lookup of the first item's product
CancelOrderFound(t) ==
  LET task == tasks[t]
      ref == task.order
  IN
  /\ tasks[t].pc = "findOrder"
  /\ hist' = <<>>
  /\ UNCHANGED <<productVars, orderVars, busVars, discountStrategy, database>>
  /\ IF ref = 0
     THEN Finish(t, "cancelOrder", task.arg, "NotFound", task.arg)
     ELSE IF ~canBeCancelled(orderObj[ref])
     THEN Finish(t, "cancelOrder", task.arg, "InvalidState", task.arg)
     ELSE /\ tasks' = [tasks EXCEPT ![t] =
               [pc |-> "findItem", op |-> "cancelOrder", arg |-> task.arg,
                order |-> ref, index |-> 1,
                found |-> ProductFindById(
                            products,
                            productObj[orderObj[ref].items[1].product].id)]]
          /\ UNCHANGED lastCall

\* cancelOrder after item index: the lookup of the next item's product or,
\* after the last item, order.cancel() and the call of
\* orderRepository.update
CancelOrderAdvance(t) ==
  LET task == tasks[t]
      ref == task.order
      items == orderObj[ref].items
      cnl == cancel(orderObj[ref])
  IN
  IF task.index < Len(items)
  THEN /\ tasks' = [tasks EXCEPT ![t] =
            [task EXCEPT
               !.pc = "findItem",
               !.index = @ + 1,
               !.found = ProductFindById(
                           products,
                           productObj[items[task.index + 1].product].id)]]
       /\ UNCHANGED <<lastCall, orderObj>>
  ELSE IF cnl.error
  THEN /\ Finish(t, "cancelOrder", task.arg, "InvalidState", task.arg)
       /\ UNCHANGED orderObj
  ELSE /\ orderObj' = [orderObj EXCEPT ![ref] = cnl.order]
       /\ tasks' = [tasks EXCEPT ![t] =
            [pc |-> "updateOrder", op |-> "cancelOrder", arg |-> task.arg,
             order |-> ref]]
       /\ UNCHANGED lastCall

\* cancelOrder resumed after productRepository.findById: increaseStock and
\* the call of productRepository.update, or the next item when the product
\* is gone
CancelOrderItem(t) ==
  LET task == tasks[t]
      item == orderObj[task.order].items[task.index]
  IN
  /\ tasks[t].pc = "findItem"
  /\ hist' = <<>>
  /\ UNCHANGED <<products, counters, assigned, orders, busVars,
                 discountStrategy, database>>
  /\ IF task.found # 0
     THEN /\ productObj' = [productObj EXCEPT ![task.found] =
                               increaseStock(@, item.quantity)]
          /\ tasks' = [tasks EXCEPT ![t] = [task EXCEPT !.pc = "updateItem"]]
          /\ UNCHANGED <<lastCall, orderObj>>
     ELSE /\ CancelOrderAdvance(t)
          /\ UNCHANGED productObj

\* cancelOrder resumed after productRepository.update
CancelOrderItemUpdated(t) ==
  LET task == tasks[t]
      upd == ProductRepoUpdate(products, productObj,
                               productObj[task.found].id,
                               productObj[task.found])
  IN
  /\ tasks[t].pc = "updateItem"
  /\ hist' = <<>>
  /\ UNCHANGED <<counters, assigned, orders, busVars, discountStrategy,
                 database>>
  /\ IF upd.error
     THEN /\ Finish(t, "cancelOrder", task.arg, "NotFound", task.arg)
          /\ UNCHANGED <<products, productObj, orderObj>>
     ELSE /\ products' = upd.keys
          /\ productObj' = upd.objs
          /\ CancelOrderAdvance(t)

\* cancelOrder resumed after orderRepository.update: the ORDER_CANCELLED
\* event
CancelOrderSaved(t) ==
  LET task == tasks[t]
      ref == task.order
      upd == OrderRepoUpdate(orders, orderObj, task.arg, orderObj[ref])
      bus == notify(observers, Bus,
                    [type |-> "ORDER_CANCELLED",
                     data |-> OrderToJSON(orderObj[ref], productObj)])
  IN
  /\ tasks[t].pc = "updateOrder"
  /\ hist' = <<>>
  /\ UNCHANGED <<productVars, orderObj, discountStrategy, observers, database>>
  /\ IF upd.error
     THEN /\ Finish(t, "cancelOrder", task.arg, "NotFound", task.arg)
          /\ UNCHANGED <<orders, logs, statistics, published, deliveries>>
     ELSE /\ orders' = upd.keys
          /\ logs' = bus.logs
          /\ statistics' = bus.statistics
          /\ published' = bus.published
          /\ deliveries' = bus.deliveries
          /\ Finish(t, "cancelOrder", task.arg,
                    IF bus.thrown THEN "NotImplemented" ELSE "", task.arg)

\* -------------------------------------------- discount strategies, direct
\* setDiscountStrategy(new PercentageDiscountStrategy(percentage)): when the
\* constructor throws, the strategy in force stays
ConstructPercentage(percentage) ==
  LET new == NewPercentage(percentage)
  IN /\ discountStrategy' = IF new.error THEN discountStrategy ELSE new.strategy
     /\ lastCall' = Call("PercentageDiscountStrategy", percentage,
                         IF new.error THEN "InvalidArgument" ELSE "", <<>>, 0)
     /\ UNCHANGED <<tasks, database>>
     /\ hist' = <<>>
     /\ UNCHANGED <<productVars, orderVars, busVars>>

\* setDiscountStrategy(new FixedAmountDiscountStrategy(amount))
ConstructFixedAmount(amount) ==
  LET new == NewFixedAmount(amount)
  IN /\ discountStrategy' = IF new.error THEN discountStrategy ELSE new.strategy
     /\ lastCall' = Call("FixedAmountDiscountStrategy", amount,
                         IF new.error THEN "InvalidArgument" ELSE "", <<>>, 0)
     /\ UNCHANGED <<tasks, database>>
     /\ hist' = <<>>
     /\ UNCHANGED <<productVars, orderVars, busVars>>

\* discountStrategy.calculate(orderTotal); lastCall.id carries the argument
Calculate(orderTotal) ==
  /\ lastCall' = Returned("calculate", orderTotal,
                          calculate(discountStrategy, orderTotal))
  /\ UNCHANGED <<tasks, database>>
  /\ hist' = <<>>
  /\ UNCHANGED <<productVars, orderVars, busVars, discountStrategy>>

\* ------------------------------------- Database and repositories, direct
\* Database.getInstance().clearAll(): both Maps emptied, both counters 0
ClearAll ==
  /\ products' = <<>>
  /\ productObj' = <<>>
  /\ orders' = <<>>
  /\ orderObj' = <<>>
  /\ counters' = [products |-> 0, orders |-> 0]
  /\ assigned' = [assigned EXCEPT
                    !.sinceClear = [products |-> {}, orders |-> {}],
                    !.createdStock = <<>>]
  /\ lastCall' = Call("clearAll", <<>>, "", <<>>, 0)
  /\ UNCHANGED <<tasks, database>>
  /\ hist' = <<>>
  /\ UNCHANGED <<busVars, discountStrategy>>

\* productRepository.update(id, updatedData)
ProductRepositoryUpdate(id, updatedData) ==
  LET upd == ProductRepoUpdate(products, productObj, id, updatedData)
  IN /\ products' = upd.keys
     /\ productObj' = upd.objs
     /\ lastCall' = Call("ProductRepository.update", updatedData,
                         IF upd.error THEN "NotFound" ELSE "", <<>>, id)
     /\ UNCHANGED <<tasks, database>>
     /\ hist' = <<>>
     /\ UNCHANGED <<orderVars, busVars, discountStrategy, counters, assigned>>

\* productRepository.delete(id)
ProductRepositoryDelete(id) ==
  LET del == ProductRepoDelete(products, id)
  IN /\ products' = del.keys
     /\ lastCall' = Call("ProductRepository.delete", <<>>,
                         IF del.error THEN "NotFound" ELSE "", <<>>, id)
     /\ UNCHANGED <<tasks, database>>
     /\ hist' = <<>>
     /\ UNCHANGED <<productObj, orderVars, busVars, discountStrategy,
                    counters, assigned>>

\* orderRepository.update(id, order)
OrderRepositoryUpdate(id, order) ==
  LET upd == OrderRepoUpdate(orders, orderObj, id, order)
  IN /\ orders' = upd.keys
     /\ orderObj' = upd.objs
     /\ lastCall' = Call("OrderRepository.update", order,
                         IF upd.error THEN "NotFound" ELSE "", <<>>, id)
     /\ UNCHANGED <<tasks, database>>
     /\ hist' = <<>>
     /\ UNCHANGED <<productVars, busVars, discountStrategy>>

\* orderRepository.delete(id)
OrderRepositoryDelete(id) ==
  LET del == OrderRepoDelete(orders, id)
  IN /\ orders' = del.keys
     /\ lastCall' = Call("OrderRepository.delete", <<>>,
                         IF del.error THEN "NotFound" ELSE "", <<>>, id)
     /\ UNCHANGED <<tasks, database>>
     /\ hist' = <<>>
     /\ UNCHANGED <<orderObj, productVars, busVars, discountStrategy>>

\* ------------------------------------------------- EventSubject, direct
\* OrderFacade.attachObserver(observer)
AttachObserver(observer) ==
  LET att == attach(observers, observer)
  IN /\ observers' = att.observers
     /\ lastCall' = Call("attachObserver", observer, att.error, <<>>, 0)
     /\ UNCHANGED <<tasks, database>>
     /\ hist' = <<>>
     /\ UNCHANGED <<productVars, orderVars, discountStrategy, logs,
                    statistics, published, deliveries>>

\* eventSubject.detach(observer)
DetachObserver(observer) ==
  LET det == detach(observers, observer)
  IN /\ observers' = det.observers
     /\ lastCall' = Call("detachObserver", observer, det.error, <<>>, 0)
     /\ UNCHANGED <<tasks, database>>
     /\ hist' = <<>>
     /\ UNCHANGED <<productVars, orderVars, discountStrategy, logs,
                    statistics, published, deliveries>>

\* ---------------------------------------------------- observers, direct
\* StatisticsObserver constructor / resetStatistics: the five counters at 0
NoStatistics ==
  [ordersCreated |-> 0, ordersCompleted |-> 0, ordersCancelled |-> 0,
   totalRevenue |-> 0, lowStockAlerts |-> 0]

\* statsObserver.resetStatistics()
ResetStatistics ==
  /\ statistics' = NoStatistics
  /\ lastCall' = Call("resetStatistics", <<>>, "", <<>>, 0)
  /\ UNCHANGED <<tasks, database>>
  /\ hist' = <<>>
  /\ UNCHANGED <<productVars, orderVars, discountStrategy, observers, logs,
                 published, deliveries>>

\* auditObserver.clearLogs()
ClearLogs ==
  /\ logs' = <<>>
  /\ lastCall' = Call("clearLogs", <<>>, "", <<>>, 0)
  /\ UNCHANGED <<tasks, database>>
  /\ hist' = <<>>
  /\ UNCHANGED <<productVars, orderVars, discountStrategy, observers,
                 statistics, published, deliveries>>

\* --------------------------------------------------------------- Database
\* the module is loaded and no Database exists: #instance = null
InitProcess ==
  /\ products = <<>> /\ productObj = <<>>
  /\ orders = <<>> /\ orderObj = <<>>
  /\ counters = [products |-> 0, orders |-> 0]
  /\ assigned = [ever |-> [products |-> {}, orders |-> {}],
                 sinceClear |-> [products |-> {}, orders |-> {}],
                 createdStock |-> <<>>]
  /\ tasks = [t \in 1..MaxTasks |-> Idle]
  /\ database = [instance |-> FALSE, direct |-> <<>>]
  /\ discountStrategy = NoDiscount
  /\ observers = <<>>
  /\ logs = <<>>
  /\ statistics = NoStatistics
  /\ published = <<>>
  /\ deliveries = <<>>
  /\ lastCall = Call("load", <<>>, "", <<>>, 0)
  /\ hist = <<>>

\* what no method of Database touches
DatabaseFrame ==
  /\ hist' = <<>>
  /\ UNCHANGED <<products, productObj, orders, orderObj, assigned, tasks,
                 discountStrategy, busVars>>

\* new Database(): throws when #instance is set, otherwise a new object
\* with empty Maps and counters at 0 (#instance is not assigned here)
Constructor(db) ==
  IF db.instance
  THEN [error |-> TRUE, db |-> db]
  ELSE [error |-> FALSE,
        db |-> [db EXCEPT !.direct = Append(@, [products |-> 0,
                                                 orders |-> 0])]]

\* Database.getInstance(): constructs and registers the instance when
\* #instance is null, and returns #instance
GetInstance ==
  /\ database' = [database EXCEPT !.instance = TRUE]
  /\ lastCall' = Returned("getInstance", 0, "instance")
  /\ UNCHANGED counters
  /\ DatabaseFrame

\* new Database() called from outside the class
NewDatabase ==
  LET r == Constructor(database)
  IN /\ database' = r.db
     /\ lastCall' = IF r.error
                    THEN Call("new Database", <<>>, "UseGetInstance", <<>>, 0)
                    ELSE Returned("new Database", Len(r.db.direct), "direct")
     /\ UNCHANGED counters
     /\ DatabaseFrame

\* db.getNextProductId() / db.getNextOrderId() on the registered instance
\* (k = 0) or on the k-th directly constructed object
GetNextId(k, store) ==
  /\ IF k = 0
     THEN /\ database.instance
          /\ counters' = [counters EXCEPT ![store] = @ + 1]
          /\ UNCHANGED database
          /\ lastCall' = Returned("getNextId", 0, counters'[store])
     ELSE /\ k <= Len(database.direct)
          /\ database' = [database EXCEPT !.direct[k][store] = @ + 1]
          /\ UNCHANGED counters
          /\ lastCall' = Returned("getNextId", k, database'.direct[k][store])
  /\ DatabaseFrame

\* ------------------------------------------------------------------ reads
\* the state no read touches
Read(call) ==
  /\ lastCall' = call
  /\ hist' = <<>>
  /\ UNCHANGED <<productVars, orderVars, busVars, discountStrategy, tasks,
                 database>>

\* orderService.getOrderById(id) -> orderFacade.getOrderDetails(id)
GetOrderDetails(id) ==
  IF OrderFindById(orders, id) = 0
  THEN Read(Call("getOrderDetails", id, "NotFound", <<>>, id))
  ELSE Read(Returned("getOrderDetails", id,
                     getOrderDetails(orderObj, productObj, discountStrategy,
                                     id)))

\* orderService.getAllOrders()
GetAllOrders ==
  Read(Returned("getAllOrders", 0, OrderFindAll(orders, orderObj)))

\* orderService.getOrderStatistics()
GetOrderStatistics ==
  Read(Returned("getOrderStatistics", 0, OrderRepoStatistics(orders, orderObj)))

\* orderService.getAuditLogs(): a copy of the log array
GetAuditLogs == Read(Returned("getAuditLogs", 0, logs))

\* orderService.getRealtimeStatistics(): a copy of the counters
GetRealtimeStatistics == Read(Returned("getRealtimeStatistics", 0, statistics))

\* productRepository.findAll()
ProductRepositoryFindAll ==
  Read(Returned("ProductRepository.findAll", 0,
                ProductFindAll(products, productObj)))

\* orderRepository.findAll()
OrderRepositoryFindAll ==
  Read(Returned("OrderRepository.findAll", 0, OrderFindAll(orders, orderObj)))

\* ------------------------------------------------------------------ Init
\* new Database(), new ProductService(), new OrderService():
\* empty Maps, counters at 0, NoDiscountStrategy, the four observers attached
Init ==
  /\ products = <<>>
  /\ productObj = <<>>
  /\ orders = <<>>
  /\ orderObj = <<>>
  /\ counters = [products |-> 0, orders |-> 0]
  /\ assigned = [ever |-> [products |-> {}, orders |-> {}],
                 sinceClear |-> [products |-> {}, orders |-> {}],
                 createdStock |-> <<>>]
  /\ tasks = [t \in 1..MaxTasks |-> Idle]
  /\ database = [instance |-> TRUE, direct |-> <<>>]
  /\ discountStrategy = NoDiscount
  /\ observers = <<"EmailNotificationObserver", "AuditLogObserver",
                   "StatisticsObserver", "PushNotificationObserver">>
  /\ logs = <<>>
  /\ statistics = [ordersCreated |-> 0, ordersCompleted |-> 0,
                   ordersCancelled |-> 0, totalRevenue |-> 0,
                   lowStockAlerts |-> 0]
  /\ published = <<>>
  /\ deliveries = <<>>
  /\ lastCall = Call("new", <<>>, "", <<>>, 0)
  /\ hist = <<>>

\* ---------------------------------------------------------------- inputs
Kbd == <<"K", "b", "d">>
Mse == <<"M", "s", "e">>
Cat == <<"P">>
Cust == <<"C", "1">>
Ana == <<"A", "n", "a">>

ProductInputs ==
  { [name |-> Kbd, price |-> 100, stock |-> Num(3), category |-> Cat],
    [name |-> Mse, description |-> <<"d">>, price |-> 300, stock |-> Num(12),
     category |-> Cat],
    [name |-> Kbd, price |-> 100, stock |-> Num(1) + 1, category |-> Cat],
    [name |-> <<"K", "b">>, price |-> 0, stock |-> Num(0 - 1),
     category |-> <<" ">>] }

StockUpdates ==
  { [stock |-> Num(0)], [stock |-> Num(0 - 2)], [stock |-> Num(2) + 1] }

PriceUpdates == { [price |-> 200] }

NameUpdates == { [name |-> <<"P", "a", "d">>] }

Quantities == { Num(1), Num(3) }

Items(ids) == [productId : ids, quantity : Quantities]

ItemLists(ids) ==
  { <<a>> : a \in Items(ids) }
    \cup { <<a, b>> : a \in Items(ids), b \in Items(ids) }

ValidRequests(ids) ==
  { [customerId |-> Cust, customerName |-> Ana, items |-> l] :
      l \in ItemLists(ids) }

InvalidRequests ==
  { [customerId |-> <<>>, customerName |-> <<" ">>,
     items |-> << [productId |-> 0, quantity |-> Num(0 - 1) - 1] >>],
    [customerId |-> Cust, customerName |-> <<>>],
    [customerId |-> Cust, customerName |-> Ana, items |-> <<>>],
    [customerId |-> Cust, customerName |-> Ana,
     items |-> << [productId |-> 1, quantity |-> Num(1)],
                  [productId |-> 1, quantity |-> Num(0)] >>],
    [customerId |-> Cust, customerName |-> Ana,
     items |-> << [productId |-> 1, quantity |-> Num(1) + 1] >>],
    [customerId |-> Cust, customerName |-> Ana,
     items |-> << [quantity |-> Num(1)], [productId |-> 1] >>] }

Statuses == STATUS \cup {"SHIPPED"}

\* the bounds of a specification: ids handed out and events logged so far
Within(maxProducts, maxOrders, maxEvents) ==
  /\ counters'.products <= maxProducts
  /\ counters'.orders <= maxOrders
  /\ Len(logs') <= maxEvents

\* ------------------------------------------------------------------ Spec
\* The whole service: every operation of ProductService and OrderService
InBounds == Within(MaxProducts, MaxOrders, MaxEvents)

ProductIds == 1..MaxProducts
OrderIds == 1..MaxOrders

Next ==
  \/ \E d \in ProductInputs : CreateProduct(d) /\ InBounds
  \/ \E id \in ProductIds, d \in StockUpdates : UpdateProduct(id, d) /\ InBounds
  \/ \E id \in ProductIds : DeleteProduct(id) /\ InBounds
  \/ SetDiscountStrategy(Percentage(10)) /\ InBounds
  \/ \E r \in ValidRequests(ProductIds) : CreateOrder(r) /\ InBounds
  \/ \E id \in OrderIds, s \in Statuses : UpdateOrderStatus(id, s) /\ InBounds
  \/ \E id \in OrderIds : CancelOrder(id) /\ InBounds

Spec == Init /\ [][Next]_vars

\* ---------------------------------------------------------- SpecPipeline
\* The order pipeline over a catalogue of up to PipelineProducts products:
\* createOrder (valid and invalid requests), updateOrderStatus, cancelOrder
PipelineBounds == Within(PipelineProducts, MaxOrders, MaxEvents)

PipelineIds == 1..PipelineProducts

NextPipeline ==
  \/ \E d \in ProductInputs : CreateProduct(d) /\ PipelineBounds
  \/ \E r \in ValidRequests(PipelineIds) \cup InvalidRequests :
        CreateOrder(r) /\ PipelineBounds
  \/ \E id \in OrderIds, s \in Statuses :
        UpdateOrderStatus(id, s) /\ PipelineBounds
  \/ \E id \in OrderIds : CancelOrder(id) /\ PipelineBounds

SpecPipeline == Init /\ [][NextPipeline]_vars

\* ---------------------------------------------------------- SpecDiscount
\* Order creation under every kind of discount policy, with later price edits
Strategies ==
  { NoDiscount, Percentage(10), FixedAmount(50), Tiered, BlackFriday,
    Coupon("WELCOME10", 150, 0) }

NextDiscount ==
  \/ \E d \in ProductInputs : CreateProduct(d) /\ InBounds
  \/ \E id \in ProductIds, d \in PriceUpdates : UpdateProduct(id, d) /\ InBounds
  \/ \E s \in Strategies : SetDiscountStrategy(s) /\ InBounds
  \/ \E r \in ValidRequests(ProductIds) : CreateOrder(r) /\ InBounds

SpecDiscount == Init /\ [][NextDiscount]_vars

\* --------------------------------------------------------- SpecCatalogue
\* Orders over a catalogue whose products are repriced and renamed
NextCatalogue ==
  \/ \E d \in ProductInputs : CreateProduct(d) /\ InBounds
  \/ \E id \in ProductIds, d \in PriceUpdates \cup NameUpdates :
        UpdateProduct(id, d) /\ InBounds
  \/ SetDiscountStrategy(Percentage(10)) /\ InBounds
  \/ \E r \in ValidRequests(ProductIds) : CreateOrder(r) /\ InBounds

SpecCatalogue == Init /\ [][NextCatalogue]_vars

\* ------------------------------------------------------------ SpecDelete
\* Orders over a catalogue from which products are deleted again
NextDelete ==
  \/ \E d \in ProductInputs : CreateProduct(d) /\ PipelineBounds
  \/ \E id \in PipelineIds : DeleteProduct(id) /\ PipelineBounds
  \/ \E r \in ValidRequests(PipelineIds) : CreateOrder(r) /\ PipelineBounds
  \/ \E id \in OrderIds : UpdateOrderStatus(id, "PROCESSING") /\ PipelineBounds
  \/ \E id \in OrderIds : CancelOrder(id) /\ PipelineBounds

SpecDelete == Init /\ [][NextDelete]_vars

\* ------------------------------------------------------------ SpecStore
\* The two stores used directly: repository update and delete with any id,
\* and Database.clearAll, next to the services that create records
NextStore ==
  \/ \E d \in {d \in ProductInputs : d.stock >= Num(3)} :
        CreateProduct(d) /\ PipelineBounds
  \/ \E r \in {r \in ValidRequests(ProductIds) : Len(r.items) = 1} :
        CreateOrder(r) /\ PipelineBounds
  \/ \E id \in PipelineIds, d \in PriceUpdates :
        ProductRepositoryUpdate(id, d) /\ PipelineBounds
  \/ \E id \in PipelineIds : ProductRepositoryDelete(id) /\ PipelineBounds
  \/ \E id \in OrderIds, ref \in 1..Len(orderObj) :
        /\ (ref = id \/ OrderFindById(orders, id) = 0)
        /\ OrderRepositoryUpdate(id, orderObj[ref])
        /\ PipelineBounds
  \/ \E id \in OrderIds : OrderRepositoryDelete(id) /\ PipelineBounds
  \/ ClearAll /\ PipelineBounds

SpecStore == Init /\ [][NextStore]_vars

\* the listeners handed to attachObserver and detach
ObserverInputs == {"AuditLogObserver", "NamedObserver", "IObserver"}

\* -------------------------------------------------------- SpecListeners
\* The order operations with the statistics and the audit log reset in
\* between
ListenerBounds ==
  /\ Within(MaxProducts, MaxOrders, MaxEvents)
  /\ Len(published') <= MaxEvents

NextListeners ==
  \/ \E d \in {d \in ProductInputs : d.stock >= Num(3)} :
        CreateProduct(d) /\ ListenerBounds
  \/ SetDiscountStrategy(Percentage(10)) /\ ListenerBounds
  \/ \E r \in ValidRequests(ProductIds) : CreateOrder(r) /\ ListenerBounds
  \/ \E id \in OrderIds, s \in STATUS :
        UpdateOrderStatus(id, s) /\ ListenerBounds
  \/ \E id \in OrderIds : CancelOrder(id) /\ ListenerBounds
  \/ ResetStatistics /\ ListenerBounds
  \/ ClearLogs /\ ListenerBounds

SpecListeners == Init /\ [][NextListeners]_vars

\* --------------------------------------------------------- SpecStrategy
\* The discount strategies on their own: constructed with any parameter and
\* applied to subtotals on and around the tier and minimum-order boundaries.
\* Subtotals are multiples of 20 and percentages multiples of 5, for which
\* subtotal * percentage / 100 is a whole number
Subtotals == {20 * k : k \in 0..60}

Percentages == {0 - 5, 0, 10, 50, 100, 105}

Amounts == {0 - 20, 0, 60, 500, 2000}

Coupons ==
  { NewCoupon([couponCode |-> "WELCOME10", discountPercentage |-> 10,
               minOrderValue |-> 500]),
    NewCoupon([couponCode |-> "WELCOME10", discountPercentage |-> 10]),
    NewCoupon([couponCode |-> "HALF", discountPercentage |-> 50,
               minOrderValue |-> 200]) }

NextStrategy ==
  \/ \E p \in Percentages : ConstructPercentage(p)
  \/ \E a \in Amounts : ConstructFixedAmount(a)
  \/ \E s \in {Tiered} \cup Coupons : SetDiscountStrategy(s)
  \/ \E t \in Subtotals : Calculate(t)

SpecStrategy == Init /\ [][NextStrategy]_vars

\* ---------------------------------------------------- SpecOverlapCreate
\* createOrder calls that overlap: each task is one call, resumed at its
\* awaits in any order
Tasks == 1..MaxTasks

OverlapBounds ==
  /\ Within(MaxProducts, MaxOrders, MaxEvents + 1)
  /\ Len(published') <= MaxEvents + 1

NextOverlapCreate ==
  \/ \E d \in {d \in ProductInputs : d.stock >= Num(3)} :
        CreateProduct(d) /\ OverlapBounds
  \/ \E t \in Tasks, r \in ValidRequests(ProductIds) :
        CreateOrderStart(t, r) /\ OverlapBounds
  \/ \E t \in Tasks : CreateOrderItem(t) /\ OverlapBounds
  \/ \E t \in Tasks : CreateOrderUpdated(t) /\ OverlapBounds
  \/ \E t \in Tasks : CreateOrderCreated(t) /\ OverlapBounds

SpecOverlapCreate == Init /\ [][NextOverlapCreate]_vars

\* -------------------------------------------------------- SpecSingleton
\* getInstance() and new Database() in any order from the loaded module,
\* and ids drawn from every Database object that exists
SingletonBounds ==
  /\ Len(database'.direct) <= MaxInstances
  /\ counters'.products <= MaxOrders /\ counters'.orders <= MaxOrders
  /\ \A k \in 1..Len(database'.direct) :
        /\ database'.direct[k].products <= MaxOrders
        /\ database'.direct[k].orders <= MaxOrders

NextSingleton ==
  \/ GetInstance /\ SingletonBounds
  \/ NewDatabase /\ SingletonBounds
  \/ \E k \in 0..MaxInstances, store \in {"products", "orders"} :
        GetNextId(k, store) /\ SingletonBounds

SpecSingleton == InitProcess /\ [][NextSingleton]_vars

\* ----------------------------------------------------------- SpecUpdate
\* Products edited field by field, with values that pass the validation
FieldUpdates ==
  { [name |-> <<"P", "a", "d">>],
    [description |-> <<>>],
    [description |-> <<"x">>],
    [price |-> 200],
    [stock |-> Num(0)],
    [category |-> <<"Q">>],
    [price |-> 200, stock |-> Num(0), description |-> <<>>] }

NextUpdate ==
  \/ \E d \in ProductInputs : CreateProduct(d) /\ PipelineBounds
  \/ \E id \in PipelineIds, d \in FieldUpdates :
        UpdateProduct(id, d) /\ PipelineBounds
  \/ \E id \in PipelineIds : DeleteProduct(id) /\ PipelineBounds

SpecUpdate == Init /\ [][NextUpdate]_vars

\* ---------------------------------------------------------- SpecFindAll
\* Records created, updated in place (fields, stock, status) and deleted,
\* and findAll of both stores
NextFindAll ==
  \/ \E d \in {d \in ProductInputs : d.stock >= Num(3)} :
        CreateProduct(d) /\ PipelineBounds
  \/ \E r \in {r \in ValidRequests(PipelineIds) : Len(r.items) = 1} :
        CreateOrder(r) /\ PipelineBounds
  \/ \E id \in PipelineIds, d \in PriceUpdates :
        ProductRepositoryUpdate(id, d) /\ PipelineBounds
  \/ \E id \in PipelineIds : ProductRepositoryDelete(id) /\ PipelineBounds
  \/ \E id \in OrderIds : UpdateOrderStatus(id, "PROCESSING") /\ PipelineBounds
  \/ \E id \in OrderIds : OrderRepositoryDelete(id) /\ PipelineBounds
  \/ ProductRepositoryFindAll
  \/ OrderRepositoryFindAll

SpecFindAll == Init /\ [][NextFindAll]_vars

\* ------------------------------------------------------------ SpecNames
\* The catalogue under names that differ in letter case only: products are
\* created, renamed, repriced and deleted, one call at a time
Names == { Kbd, <<"k", "b", "d">>, <<"K", "B", "d">>, Mse }

NamedProducts ==
  { [name |-> n, price |-> 100, stock |-> Num(3), category |-> Cat] :
      n \in Names }

Renames == { [name |-> n] : n \in Names } \cup PriceUpdates

NameBounds == Within(PipelineProducts + 1, MaxOrders, MaxEvents)

NameIds == 1..(PipelineProducts + 1)

NextNames ==
  \/ \E d \in NamedProducts : CreateProduct(d) /\ NameBounds
  \/ \E id \in NameIds, d \in Renames : UpdateProduct(id, d) /\ NameBounds
  \/ \E id \in NameIds : DeleteProduct(id) /\ NameBounds

SpecNames == Init /\ [][NextNames]_vars

\* ---------------------------------------------------- SpecOverlapPolicy
\* POST /api/orders requests that overlap, each with its own discountType
Bodies(ids) ==
  { [customerId |-> Cust, customerName |-> Ana, items |-> <<i>>,
     discountType |-> d, discountValue |-> v] :
      i \in Items(ids), d \in {"none", "percentage", "tiered"},
      v \in {0, 50, 105} }

NextOverlapPolicy ==
  \/ \E d \in {d \in ProductInputs : d.stock >= Num(3)} :
        CreateProduct(d) /\ OverlapBounds
  \/ \E t \in Tasks, body \in Bodies(ProductIds) :
        OrderControllerCreate(t, body) /\ OverlapBounds
  \/ \E t \in Tasks : CreateOrderItem(t) /\ OverlapBounds
  \/ \E t \in Tasks : CreateOrderUpdated(t) /\ OverlapBounds
  \/ \E t \in Tasks : CreateOrderCreated(t) /\ OverlapBounds

SpecOverlapPolicy == Init /\ [][NextOverlapPolicy]_vars

\* ---------------------------------------------------- SpecOverlapCancel
\* orders made and set to PROCESSING before any cancelOrder call is made,
\* orders made in between, and cancelOrder calls that overlap
NextOverlapCancel ==
  \/ \E d \in {d \in ProductInputs : d.stock >= Num(3)} :
        CreateProduct(d) /\ OverlapBounds
  \/ \E r \in {r \in ValidRequests(ProductIds) : Len(r.items) = 1} :
        CreateOrder(r) /\ OverlapBounds
  \/ /\ \A t \in Tasks : tasks[t].pc = "idle"
     /\ \E id \in OrderIds : UpdateOrderStatus(id, "PROCESSING")
     /\ OverlapBounds
  \/ \E t \in Tasks, id \in OrderIds : CancelOrderStart(t, id) /\ OverlapBounds
  \/ \E t \in Tasks : CancelOrderFound(t) /\ OverlapBounds
  \/ \E t \in Tasks : CancelOrderItem(t) /\ OverlapBounds
  \/ \E t \in Tasks : CancelOrderItemUpdated(t) /\ OverlapBounds
  \/ \E t \in Tasks : CancelOrderSaved(t) /\ OverlapBounds

SpecOverlapCancel == Init /\ [][NextOverlapCancel]_vars

\* ------------------------------------------------------------ SpecReads
\* orders made, completed and cancelled under a changing policy, and the
\* five read methods
NextReads ==
  \/ \E d \in {d \in ProductInputs : d.stock >= Num(3)} :
        CreateProduct(d) /\ ListenerBounds
  \/ SetDiscountStrategy(Percentage(10)) /\ ListenerBounds
  \/ \E r \in {r \in ValidRequests(ProductIds) : Len(r.items) = 1} :
        CreateOrder(r) /\ ListenerBounds
  \/ \E id \in OrderIds : UpdateOrderStatus(id, "COMPLETED") /\ ListenerBounds
  \/ \E id \in OrderIds : CancelOrder(id) /\ ListenerBounds
  \/ \E id \in OrderIds : GetOrderDetails(id)
  \/ GetAllOrders
  \/ GetOrderStatistics
  \/ GetAuditLogs
  \/ GetRealtimeStatistics

SpecReads == Init /\ [][NextReads]_vars

\* ------------------------------------------------------------ SpecAudit
\* The orchestrator with further listeners attached through it, and the
\* audit log cleared in between
NextAudit ==
  \/ \E d \in {d \in ProductInputs : d.stock >= Num(3)} :
        CreateProduct(d) /\ ListenerBounds
  \/ \E o \in ObserverInputs : AttachObserver(o) /\ ListenerBounds
  \/ \E r \in {r \in ValidRequests(ProductIds) : Len(r.items) = 1} :
        CreateOrder(r) /\ ListenerBounds
  \/ \E id \in OrderIds : UpdateOrderStatus(id, "COMPLETED") /\ ListenerBounds
  \/ \E id \in OrderIds : CancelOrder(id) /\ ListenerBounds
  \/ ClearLogs /\ ListenerBounds

SpecAudit == Init /\ [][NextAudit]_vars

\* -------------------------------------------------------------- SpecBus
\* The Notification Bus with listeners attached and detached at run time,
\* among them listeners whose update throws
BusBounds ==
  /\ Within(MaxProducts, MaxOrders, MaxEvents)
  /\ Len(deliveries') <= MaxDeliveries

NextBus ==
  \/ \E o \in ObserverInputs : AttachObserver(o) /\ BusBounds
  \/ \E o \in ObserverInputs : DetachObserver(o) /\ BusBounds
  \/ \E d \in {d \in ProductInputs : d.stock >= Num(3)} :
        CreateProduct(d) /\ BusBounds
  \/ \E r \in ValidRequests(ProductIds) : CreateOrder(r) /\ BusBounds
  \/ \E id \in OrderIds : UpdateOrderStatus(id, "PROCESSING") /\ BusBounds
  \/ \E id \in OrderIds : CancelOrder(id) /\ BusBounds

SpecBus == Init /\ [][NextBus]_vars

\* ================================================================ claims
StoredProducts == {products[i] : i \in 1..Len(products)}
StoredOrders == {orders[i] : i \in 1..Len(orders)}

\* C1: in every reachable state every stored product's stock is a
\* non-negative integer, whatever product and order calls were made:
\* createOrder decrements only what hasStock granted
C1_StockNonNegativeInteger ==
  \A p \in StoredProducts :
     productObj[p].stock >= 0 /\ IsInteger(productObj[p].stock)

\* an order has just taken the whole stock of a product: it is exactly 0
C1_Witness ==
  /\ lastCall.op = "createOrder" /\ lastCall.ok
  /\ \E p \in StoredProducts : productObj[p].stock = 0 /\ hist[p] > 0

\* the quantity a request's items ask of product p, over all its items
RECURSIVE Requested(_, _)
Requested(items, p) ==
  IF items = <<>> THEN 0
  ELSE (IF Head(items).productId = p THEN Head(items).quantity ELSE 0)
       + Requested(Tail(items), p)

\* C2: round trip.  A createOrder that succeeds lowers each product's stock
\* by exactly the sum of the quantities its request asks of that product
\* (the same product may be listed in several items); the cancelOrder that
\* directly follows on the returned order succeeds and leaves every product
\* that still exists with the stock it had before the createOrder
C2_RoundTrip ==
  /\ [][(lastCall'.op = "createOrder" /\ lastCall'.ok) =>
          \A r \in ValidRequests(PipelineIds) :
             CreateOrder(r) =>
               \A p \in 1..Len(productObj) :
                  productObj'[p].stock
                    = productObj[p].stock - Requested(r.items, p)]_vars
  /\ []((lastCall.op = "cancelOrder" /\ hist # <<>>) =>
          /\ lastCall.ok
          /\ \A p \in StoredProducts : productObj[p].stock = hist[p])

\* the order just cancelled right after its creation lists one product twice
C2_Witness ==
  /\ lastCall.op = "cancelOrder" /\ lastCall.ok /\ hist # <<>>
  /\ LET items == orderObj[lastCall.id].items
     IN Len(items) = 2 /\ items[1].product = items[2].product
        /\ productObj[items[1].product].stock = hist[items[1].product]
        /\ hist[items[1].product] > 0

\* C3: createOrder is all-or-nothing on inventory: a createOrder that fails
\* with InsufficientStock or NotFound leaves the stock of every product as
\* it was before the call, the products of earlier items included
C3_FailedCreateKeepsStock ==
  [][(lastCall'.op = "createOrder"
        /\ lastCall'.error \in {"InsufficientStock", "NotFound"}) =>
       \A p \in 1..Len(productObj) :
          productObj'[p].stock = productObj[p].stock]_vars

\* the value of an item list: quantity (whole units) times captured price
ItemsValue(items) ==
  LET RECURSIVE upTo(_)
      upTo(n) == IF n = 0 THEN 0
                 ELSE upTo(n - 1)
                      + (items[n].quantity \div 2) * items[n].unitPrice
  IN upTo(Len(items))

\* C4: every stored order's subtotal is the sum over its items of quantity
\* times the unit price captured when the order was created (the product's
\* price at that moment, kept whatever the product's price becomes), and its
\* total is max(0, subtotal - discount), so never negative
C4_SubtotalAndTotal ==
  /\ [](\A o \in StoredOrders :
          /\ orderObj[o].subtotal = ItemsValue(orderObj[o].items)
          /\ orderObj[o].total
               = (IF orderObj[o].subtotal > orderObj[o].discount
                  THEN orderObj[o].subtotal - orderObj[o].discount ELSE 0)
          /\ orderObj[o].total >= 0)
  /\ [][/\ \A o \in StoredOrders : orderObj'[o].items = orderObj[o].items
        /\ (lastCall'.op = "createOrder" /\ lastCall'.ok) =>
              \A i \in 1..Len(orderObj'[lastCall'.id].items) :
                 LET item == orderObj'[lastCall'.id].items[i]
                 IN item.unitPrice = productObj[item.product].price]_vars

\* a stored order whose discount exceeds its subtotal: the total is 0
C4_Witness ==
  \E o \in StoredOrders :
     /\ orderObj[o].discount > orderObj[o].subtotal
     /\ orderObj[o].subtotal > 0
     /\ orderObj[o].total = 0

\* C5: cancelOrder succeeds exactly when the order exists and is PENDING or
\* PROCESSING, and then the order is CANCELLED; on a COMPLETED or CANCELLED
\* order it fails with InvalidState and the orders, every product's stock
\* and the published events are unchanged (no second restoration)
C5_CancelOnlyWhenOpen ==
  [][lastCall'.op = "cancelOrder" =>
       LET id == lastCall'.id
           open == /\ id \in StoredOrders
                   /\ orderObj[id].status \in {"PENDING", "PROCESSING"}
       IN
       /\ lastCall'.ok <=> open
       /\ lastCall'.ok => orderObj'[id].status = "CANCELLED"
       /\ (id \in StoredOrders
            /\ orderObj[id].status \in {"COMPLETED", "CANCELLED"}) =>
             /\ lastCall'.error = "InvalidState"
             /\ UNCHANGED <<products, productObj, orders, orderObj, logs,
                            statistics>>]_vars

\* cancelOrder was just refused on an order that is already CANCELLED
C5_Witness ==
  /\ lastCall.op = "cancelOrder"
  /\ lastCall.error = "InvalidState"
  /\ lastCall.id \in StoredOrders
  /\ orderObj[lastCall.id].status = "CANCELLED"

\* C6 as stated: COMPLETED and CANCELLED are terminal, and the only status
\* changes that ever occur are PENDING->PROCESSING, PENDING->CANCELLED,
\* PROCESSING->COMPLETED and PROCESSING->CANCELLED
C6_OnlyFourTransitions ==
  [][\A o \in StoredOrders :
        orderObj'[o].status # orderObj[o].status =>
          <<orderObj[o].status, orderObj'[o].status>> \in
             { <<"PENDING", "PROCESSING">>, <<"PENDING", "CANCELLED">>,
               <<"PROCESSING", "COMPLETED">>, <<"PROCESSING", "CANCELLED">> }
     ]_vars

\* C6 amended: a status changes only in a successful updateOrderStatus on
\* that order, which may take it from any status to any of the four
\* statuses, or in a successful cancelOrder on that order, which takes it
\* from PENDING or PROCESSING to CANCELLED; so COMPLETED and CANCELLED are
\* terminal for cancelOrder only
C6_StatusChanges ==
  [][\A o \in StoredOrders :
        orderObj'[o].status # orderObj[o].status =>
          /\ lastCall'.ok /\ lastCall'.id = o
          /\ \/ /\ lastCall'.op = "updateOrderStatus"
                /\ orderObj'[o].status \in STATUS
             \/ /\ lastCall'.op = "cancelOrder"
                /\ orderObj[o].status \in {"PENDING", "PROCESSING"}
                /\ orderObj'[o].status = "CANCELLED"]_vars

\* updateOrderStatus has just taken an order out of COMPLETED or CANCELLED
C6_Witness ==
  /\ lastCall.op = "updateOrderStatus" /\ lastCall.ok
  /\ logs # <<>>
  /\ LET e == logs[Len(logs)]
     IN /\ e.type = "ORDER_STATUS_CHANGED"
        /\ e.data.orderId = lastCall.id
        /\ e.data.oldStatus \in {"COMPLETED", "CANCELLED"}
        /\ e.data.newStatus # e.data.oldStatus
        /\ orderObj[lastCall.id].status = e.data.newStatus

\* the quantity an order's items hold of product object p
RECURSIVE Ordered(_, _)
Ordered(items, p) ==
  IF items = <<>> THEN 0
  ELSE (IF Head(items).product = p THEN Head(items).quantity ELSE 0)
       + Ordered(Tail(items), p)

\* C7: whenever an order's status becomes CANCELLED, by cancelOrder or by
\* updateOrderStatus, its previous status was PENDING or PROCESSING and the
\* same operation added each item's quantity back to the stock of the
\* item's product, if that product still exists
C7_CancelledMeansRestored ==
  [][\A o \in StoredOrders :
        (orderObj'[o].status = "CANCELLED"
           /\ orderObj[o].status # "CANCELLED") =>
          /\ orderObj[o].status \in {"PENDING", "PROCESSING"}
          /\ \A p \in StoredProducts :
                productObj'[p].stock
                  = productObj[p].stock + Ordered(orderObj[o].items, p)
     ]_vars

\* the events a step has appended to the audit log
NewEvents == SubSeq(logs', Len(logs) + 1, Len(logs'))

\* the PRODUCT_LOW_STOCK events of a list, as <<product id, stock carried>>
LowStockOf(events) ==
  LET low == SelectSeq(events, LAMBDA e : e.type = "PRODUCT_LOW_STOCK")
  IN [i \in 1..Len(low) |-> <<low[i].data.id, low[i].data.stock>>]

\* C8 as stated: a createOrder call publishes one PRODUCT_LOW_STOCK event per
\* product whose stock after the decrement is below 10, carrying that
\* post-decrement stock, and none for any other product
C8_OneEventPerProduct ==
  [][lastCall'.op = "createOrder" =>
       \A p \in 1..Len(productObj) :
          LET ev == SelectSeq(LowStockOf(NewEvents), LAMBDA e : e[1] = p)
          IN IF productObj'[p].stock < productObj[p].stock
                /\ productObj'[p].stock < Num(10)
             THEN ev = << <<p, productObj'[p].stock>> >>
             ELSE ev = <<>>]_vars

\* the stock of product p once the first n items of a request are processed
StockAfter(items, n, p) ==
  productObj[p].stock - Requested(SubSeq(items, 1, n), p)

\* the number of items createOrder processes before it returns or throws:
\* the items before the first one whose product is not stored or whose
\* quantity exceeds what is left
Processed(items) ==
  LET fails(i) ==
        \/ items[i].productId \notin StoredProducts
        \/ StockAfter(items, i - 1, items[i].productId) < items[i].quantity
      bad == {i \in 1..Len(items) : fails(i)}
  IN IF bad = {} THEN Len(items)
     ELSE (CHOOSE i \in bad : \A j \in bad : i <= j) - 1

\* the low-stock events a request calls for: one per processed item that
\* leaves its product below 10, in item order, with the stock it leaves
RECURSIVE ExpectedLowStock(_, _)
ExpectedLowStock(items, n) ==
  IF n = 0 THEN <<>>
  ELSE LET left == StockAfter(items, n, items[n].productId)
       IN ExpectedLowStock(items, n - 1)
          \o (IF left < Num(10) THEN << <<items[n].productId, left>> >>
              ELSE <<>>)

\* C8 amended: a createOrder call publishes one PRODUCT_LOW_STOCK event per
\* processed item that leaves its product's stock below 10 (so a product
\* listed in several items may get several events), in item order, each
\* carrying the stock right after that item's decrement; an item that
\* leaves 10 or more publishes none
C8_OneEventPerItem ==
  [][lastCall'.op = "createOrder" =>
       \A r \in ValidRequests(ProductIds) :
          CreateOrder(r) =>
            LowStockOf(NewEvents)
              = ExpectedLowStock(r.items, Processed(r.items))]_vars

\* one createOrder has published two low-stock events for the same product
C8_Witness ==
  /\ lastCall.op = "createOrder" /\ lastCall.ok
  /\ Len(logs) >= 3
  /\ logs[Len(logs) - 2].type = "PRODUCT_LOW_STOCK"
  /\ logs[Len(logs) - 1].type = "PRODUCT_LOW_STOCK"
  /\ logs[Len(logs) - 2].data.id = logs[Len(logs) - 1].data.id
  /\ logs[Len(logs) - 2].data.stock > logs[Len(logs) - 1].data.stock
  /\ Len(orderObj[lastCall.id].items) = 2

\* C9: a successful createOrder publishes exactly one ORDER_CREATED event,
\* as the last event of the call (after every PRODUCT_LOW_STOCK event of the
\* call) and once the order is stored under its fresh id; the payload has
\* that id and the stored subtotal, discount and total, and status PENDING
C9_OrderCreatedEvent ==
  [][(lastCall'.op = "createOrder" /\ lastCall'.ok) =>
       LET id == lastCall'.id
           n == Len(NewEvents)
       IN
       /\ id = counters.orders + 1
       /\ id \notin StoredOrders /\ id \in StoredOrders'
       /\ n >= 1
       /\ NewEvents[n].type = "ORDER_CREATED"
       /\ \A i \in 1..(n - 1) : NewEvents[i].type = "PRODUCT_LOW_STOCK"
       /\ statistics'.ordersCreated = statistics.ordersCreated + 1
       /\ NewEvents[n].data.id = id
       /\ NewEvents[n].data.subtotal = orderObj'[id].subtotal
       /\ NewEvents[n].data.discount = orderObj'[id].discount
       /\ NewEvents[n].data.total = orderObj'[id].total
       /\ NewEvents[n].data.status = "PENDING"
       /\ orderObj'[id].status = "PENDING"]_vars

\* a discounted order was just created, its ORDER_CREATED event coming after
\* a low-stock event of the same call
C9_Witness ==
  /\ lastCall.op = "createOrder" /\ lastCall.ok
  /\ Len(logs) >= 2
  /\ logs[Len(logs)].type = "ORDER_CREATED"
  /\ logs[Len(logs)].data.id = lastCall.id
  /\ logs[Len(logs)].data.discount > 0
  /\ logs[Len(logs)].data.total < logs[Len(logs)].data.subtotal
  /\ logs[Len(logs) - 1].type = "PRODUCT_LOW_STOCK"

\* the constraints of createOrder a request violates, as <<item, field>>
\* (item 0: the request itself)
Violations(r) ==
  (IF ~Has(r, "customerId") \/ r.customerId = <<>>
   THEN {<<0, "customerId">>} ELSE {})
  \cup (IF ~Has(r, "customerName") \/ r.customerName = <<>>
        THEN {<<0, "customerName">>} ELSE {})
  \cup (IF ~Has(r, "items") \/ r.items = <<>>
        THEN {<<0, "items">>}
        ELSE {<<i, "productId">> : i \in {j \in 1..Len(r.items) :
                                            ~Has(r.items[j], "productId")}}
             \cup
             {<<i, "quantity">> : i \in {j \in 1..Len(r.items) :
                \/ ~Has(r.items[j], "quantity")
                \/ r.items[j].quantity <= 0
                \/ r.items[j].quantity % 2 # 0}})

\* the constraint an error message of the order validation is about
FieldOf(msg) ==
  CASE msg = "ID do cliente e obrigatorio" -> "customerId"
    [] msg \in {"Nome do cliente e obrigatorio",
                "Nome do cliente deve ter no minimo 3 caracteres"}
         -> "customerName"
    [] msg \in {"Itens do pedido sao obrigatorios",
                "Pedido deve conter pelo menos um item"} -> "items"
    [] msg = "ID do produto e obrigatorio" -> "productId"
    [] msg \in {"Quantidade deve ser maior que zero",
                "Quantidade deve ser um numero inteiro"} -> "quantity"

Reported(errors) ==
  {<<errors[i].item, FieldOf(errors[i].msg)>> : i \in 1..Len(errors)}

\* C10: createOrder rejects a request with an empty customer id, an empty
\* customer name, a missing or empty item list, or an item without product
\* id or with a quantity that is not a positive integer; the error names
\* every violated constraint, and the rejection changes no product, stores
\* no order, consumes no order id and publishes no event
C10_ValidationRejects ==
  [][lastCall'.op = "createOrder" =>
       \A r \in InvalidRequests \cup ValidRequests(PipelineIds) :
          (Violations(r) # {} /\ CreateOrder(r)) =>
             /\ lastCall'.error = "ValidationError"
             /\ Violations(r) \subseteq Reported(lastCall'.errors)
             /\ UNCHANGED <<products, productObj, orders, orderObj,
                            counters, logs, statistics>>]_vars

\* a request violating several constraints at once was just rejected with
\* one message for each
C10_Witness ==
  /\ lastCall.op = "createOrder"
  /\ lastCall.error = "ValidationError"
  /\ {<<0, "customerId">>, <<0, "customerName">>, <<1, "productId">>,
      <<1, "quantity">>} \subseteq Reported(lastCall.errors)
  /\ products # <<>>

\* C11: a successful updateOrderStatus(id, newStatus) sets the stored
\* order's status to newStatus and publishes exactly one event, an
\* ORDER_STATUS_CHANGED whose oldStatus is the status before the call, whose
\* newStatus is the requested one and whose embedded order has that status;
\* no product and no other order changes
C11_StatusChangedEvent ==
  [][(lastCall'.op = "updateOrderStatus" /\ lastCall'.ok) =>
       \A s \in Statuses :
          UpdateOrderStatus(lastCall'.id, s) =>
            LET id == lastCall'.id
            IN
            /\ orderObj'[id].status = s
            /\ Len(NewEvents) = 1
            /\ NewEvents[1].type = "ORDER_STATUS_CHANGED"
            /\ NewEvents[1].data.orderId = id
            /\ NewEvents[1].data.oldStatus = orderObj[id].status
            /\ NewEvents[1].data.newStatus = s
            /\ NewEvents[1].data.order.id = id
            /\ NewEvents[1].data.order.status = s
            /\ UNCHANGED <<products, productObj, orders>>
            /\ \A o \in 1..Len(orderObj) :
                  o # id => orderObj'[o] = orderObj[o]]_vars

\* an order was just moved from PENDING to PROCESSING while another order
\* is stored
C11_Witness ==
  /\ lastCall.op = "updateOrderStatus" /\ lastCall.ok
  /\ Len(orders) = 2
  /\ logs # <<>>
  /\ logs[Len(logs)].type = "ORDER_STATUS_CHANGED"
  /\ logs[Len(logs)].data.oldStatus = "PENDING"
  /\ logs[Len(logs)].data.newStatus = "PROCESSING"
  /\ orderObj[lastCall.id].status = "PROCESSING"

\* C12: updateOrderStatus fails when the order id is unknown or newStatus
\* is none of PENDING, PROCESSING, COMPLETED, CANCELLED, and then the
\* orders and their statuses, the products and the published events are
\* unchanged
C12_UpdateStatusRejects ==
  [][lastCall'.op = "updateOrderStatus" =>
       \A id \in OrderIds, s \in Statuses :
          (UpdateOrderStatus(id, s)
             /\ (id \notin StoredOrders
                  \/ s \notin {"PENDING", "PROCESSING", "COMPLETED",
                                "CANCELLED"})) =>
            /\ ~lastCall'.ok
            /\ lastCall'.error = (IF id \notin StoredOrders
                                  THEN "NotFound" ELSE "InvalidStatus")
            /\ UNCHANGED <<products, productObj, orders, orderObj, counters,
                           logs, statistics>>]_vars

\* a status outside the four was just refused for a stored order
C12_Witness ==
  /\ lastCall.op = "updateOrderStatus"
  /\ lastCall.error = "InvalidStatus"
  /\ lastCall.id \in StoredOrders

\* C13: cancelOrder on a PENDING or PROCESSING order succeeds also when the
\* product of an item has been deleted: that item's restoration is skipped
\* (the deleted product keeps its stock), the stock of every product still
\* stored rises by the quantities the order holds of it, the status becomes
\* CANCELLED and exactly one event is published, an ORDER_CANCELLED carrying
\* the stored, cancelled order
C13_CancelSkipsDeletedProducts ==
  [][\A id \in StoredOrders :
        (lastCall'.op = "cancelOrder" /\ lastCall'.id = id
           /\ orderObj[id].status \in {"PENDING", "PROCESSING"}) =>
          /\ lastCall'.ok
          /\ orderObj'[id].status = "CANCELLED"
          /\ id \in StoredOrders'
          /\ \A p \in 1..Len(productObj) :
                productObj'[p].stock =
                  IF p \in StoredProducts
                  THEN productObj[p].stock + Ordered(orderObj[id].items, p)
                  ELSE productObj[p].stock
          /\ Len(NewEvents) = 1
          /\ NewEvents[1].type = "ORDER_CANCELLED"
          /\ NewEvents[1].data.id = id
          /\ NewEvents[1].data.status = "CANCELLED"
          /\ Len(NewEvents[1].data.items) = Len(orderObj[id].items)]_vars

\* an order was just cancelled whose first item's product is deleted and
\* whose second item's product is still stored
C13_Witness ==
  /\ lastCall.op = "cancelOrder" /\ lastCall.ok
  /\ LET items == orderObj[lastCall.id].items
     IN /\ Len(items) = 2
        /\ items[1].product \notin StoredProducts
        /\ items[2].product \in StoredProducts
  /\ logs[Len(logs)].type = "ORDER_CANCELLED"

\* the update calls and the publications of a step
NewDeliveries == SubSeq(deliveries', Len(deliveries) + 1, Len(deliveries'))
NewPublished == SubSeq(published', Len(published) + 1, Len(published'))

\* the events one listener received among some update calls
Received(observer, calls) ==
  LET own == SelectSeq(calls, LAMBDA c : c[1] = observer)
  IN [i \in 1..Len(own) |-> own[i][2]]

Attached == {observers[i] : i \in 1..Len(observers)}

\* C14: after any attach and detach calls the listener list holds no
\* listener twice and every published event is delivered exactly once to
\* every attached listener; attaching an attached listener and detaching a
\* listener that is not attached leave the list unchanged
C14_NoDuplicateDelivery ==
  /\ [](\A i, j \in 1..Len(observers) :
          i # j => observers[i] # observers[j])
  /\ [][/\ lastCall'.op = "attachObserver" =>
             \A o \in ObserverInputs :
               (AttachObserver(o) /\ o \in Attached) => observers' = observers
        /\ lastCall'.op = "detachObserver" =>
             \A o \in ObserverInputs :
               (DetachObserver(o) /\ o \notin Attached) =>
                 observers' = observers
        /\ published' # published =>
             \A o \in Attached : Received(o, NewDeliveries) = NewPublished]_vars

\* C15: when a listener raises an error while handling a published event,
\* every other attached listener still receives the event, the error does
\* not reach the publisher, and createOrder, updateOrderStatus or
\* cancelOrder completes with its store changes persisted
C15_ListenerFailureIsolated ==
  [][(/\ published' # published
      /\ \E o \in Attached :
           UpdateThrows(o, NewPublished[1])) =>
       /\ \A o \in Attached : Received(o, NewDeliveries) = NewPublished
       /\ lastCall'.error # "NotImplemented"
       /\ lastCall'.op \in {"updateOrderStatus", "cancelOrder"} =>
            lastCall'.ok
       /\ (lastCall'.op = "createOrder" /\ Len(orders') > Len(orders)) =>
            lastCall'.ok]_vars

\* C16: each event goes to the attached listeners in attachment order, and
\* one event is delivered to every listener before the next event is
\* delivered to any, so all listeners observe the same sequence of events
C16_DeliveryOrder ==
  [][published' # published =>
       /\ Len(NewDeliveries) = Len(NewPublished) * Len(observers)
       /\ \A e \in 1..Len(NewPublished), k \in 1..Len(observers) :
            NewDeliveries[(e - 1) * Len(observers) + k]
              = <<observers[k], NewPublished[e]>>
       /\ \A o, q \in Attached :
            Received(o, NewDeliveries) = Received(q, NewDeliveries)]_vars


\* C17 as stated: the id a store assigns on create is greater than every id
\* that store assigned before, so no id is ever assigned twice
C17_IdsNeverReused ==
  [][/\ (lastCall'.op = "createProduct" /\ lastCall'.ok) =>
          \A a \in assigned.ever.products : lastCall'.id > a
     /\ (lastCall'.op = "createOrder" /\ lastCall'.ok) =>
          \A a \in assigned.ever.orders : lastCall'.id > a]_vars

\* C17, amended: the id a store assigns on create is greater than every id
\* it assigned since the last Database.clearAll (or since construction),
\* also after records with smaller ids were deleted, and the stored ids are
\* among those; clearAll empties both stores and sets both counters to 0,
\* so the create after it assigns id 1 again
C17_IdsIncreaseBetweenClears ==
  /\ [](/\ StoredProducts \subseteq assigned.sinceClear.products
        /\ StoredOrders \subseteq assigned.sinceClear.orders
        /\ assigned.sinceClear.products = 1..counters.products
        /\ assigned.sinceClear.orders = 1..counters.orders)
  /\ [][/\ (lastCall'.op = "createProduct" /\ lastCall'.ok) =>
             /\ \A a \in assigned.sinceClear.products : lastCall'.id > a
             /\ lastCall'.id \in StoredProducts'
             /\ lastCall'.id \notin StoredProducts
        /\ (lastCall'.op = "createOrder" /\ lastCall'.ok) =>
             /\ \A a \in assigned.sinceClear.orders : lastCall'.id > a
             /\ lastCall'.id \in StoredOrders'
             /\ lastCall'.id \notin StoredOrders
        /\ lastCall'.op = "clearAll" =>
             /\ products' = <<>> /\ orders' = <<>>
             /\ counters' = [products |-> 0, orders |-> 0]]_vars

\* a product created with id 2 after the product with id 1 was deleted, in
\* a store that was cleared before
C17_Witness ==
  /\ lastCall.op = "createProduct" /\ lastCall.ok /\ lastCall.id = 2
  /\ StoredProducts = {2}
  /\ assigned.ever.products = {1, 2}
  /\ assigned.sinceClear.orders = {} /\ assigned.ever.orders # {}

\* C18: in both stores update(id, ...) and delete(id) of an id without a
\* record fail and leave the store's contents and its id counter unchanged;
\* findById of an unknown or deleted id returns absent; after a successful
\* delete(id) neither findById nor findAll returns the record, and the
\* other records stay
C18_UnknownIdFails ==
  /\ [](/\ \A id \in PipelineIds \ StoredProducts :
             ProductFindById(products, id) = 0
        /\ \A id \in OrderIds \ StoredOrders : OrderFindById(orders, id) = 0)
  /\ [][LET id == lastCall'.id IN
        /\ lastCall'.op \in {"ProductRepository.update",
                             "ProductRepository.delete"} =>
             IF id \notin StoredProducts
             THEN /\ lastCall'.error = "NotFound"
                  /\ UNCHANGED <<products, productObj, counters>>
             ELSE /\ lastCall'.ok
                  /\ UNCHANGED counters
                  /\ lastCall'.op = "ProductRepository.delete" =>
                       /\ ProductFindById(products', id) = 0
                       /\ id \notin StoredProducts'
                       /\ products' = RemoveKey(products, id)
        /\ lastCall'.op \in {"OrderRepository.update",
                             "OrderRepository.delete"} =>
             IF id \notin StoredOrders
             THEN /\ lastCall'.error = "NotFound"
                  /\ UNCHANGED <<orders, orderObj, counters>>
             ELSE /\ lastCall'.ok
                  /\ UNCHANGED counters
                  /\ lastCall'.op = "OrderRepository.delete" =>
                       /\ OrderFindById(orders', id) = 0
                       /\ id \notin StoredOrders'
                       /\ orders' = RemoveKey(orders, id)]_vars

\* delete of an order id that was deleted before, with another order stored
C18_Witness ==
  /\ lastCall.op = "OrderRepository.delete" /\ lastCall.error = "NotFound"
  /\ lastCall.id = 1 /\ 1 \in assigned.sinceClear.orders
  /\ StoredOrders = {2}

\* the ORDER_CREATED events logged for an order that is still stored
CreatedEvents ==
  {i \in 1..Len(logs) : /\ logs[i].type = "ORDER_CREATED"
                        /\ logs[i].data.id \in StoredOrders}

Details(orderId) ==
  getOrderDetails(orderObj, productObj, discountStrategy, orderId).order

\* C19: the unit price of an item is the product's price when the item was
\* added, and an updateProduct that changes a price leaves unit price, item
\* subtotal, order subtotal, discount and total of every existing order as
\* they were, in the order and in what getOrderDetails reports
C19_PriceCaptured ==
  /\ [][(lastCall'.op = "createOrder" /\ lastCall'.ok) =>
          LET o == orderObj'[lastCall'.id] IN
          \A i \in 1..Len(o.items) :
             o.items[i].unitPrice = productObj[o.items[i].product].price]_vars
  /\ [][lastCall'.op = "updateProduct" =>
          \A o \in StoredOrders :
             /\ orderObj'[o] = orderObj[o]
             /\ LET before == OrderToJSON(orderObj[o], productObj)
                    after == OrderToJSON(orderObj'[o], productObj')
                IN /\ after.subtotal = before.subtotal
                   /\ after.discount = before.discount
                   /\ after.total = before.total
                   /\ \A i \in 1..Len(before.items) :
                        /\ after.items[i].unitPrice = before.items[i].unitPrice
                        /\ after.items[i].subtotal = before.items[i].subtotal]_vars

\* an order whose product was repriced after the order was created
C19_Witness ==
  /\ lastCall.op = "updateProduct" /\ lastCall.ok
  /\ \E o \in StoredOrders :
       /\ orderObj[o].discount > 0
       /\ \E i \in 1..Len(orderObj[o].items) :
            /\ orderObj[o].items[i].unitPrice = 100
            /\ productObj[orderObj[o].items[i].product].price = 200

\* C20: the product name reported for the items of a stored order (toJSON,
\* getOrderDetails) is the name the product had when the order was created,
\* which the ORDER_CREATED event recorded, also after the product was renamed
C20_NameSnapshot ==
  \A e \in CreatedEvents :
     LET reported == Details(logs[e].data.id)
     IN \A i \in 1..Len(reported.items) :
          /\ reported.items[i].productId = logs[e].data.items[i].productId
          /\ reported.items[i].productName
               = logs[e].data.items[i].productName

\* the number of events of a type among some events
CountType(events, type) ==
  Cardinality({i \in 1..Len(events) : events[i].type = type})

\* the sum of order.total over the status-changed events to COMPLETED
RECURSIVE Revenue(_)
Revenue(events) ==
  IF events = <<>> THEN 0
  ELSE (IF /\ Head(events).type = "ORDER_STATUS_CHANGED"
           /\ Head(events).data.newStatus = "COMPLETED"
        THEN Head(events).data.order.total ELSE 0) + Revenue(Tail(events))

Completions(events) ==
  Cardinality({i \in 1..Len(events) :
                 /\ events[i].type = "ORDER_STATUS_CHANGED"
                 /\ events[i].data.newStatus = "COMPLETED"})

\* what the statistics are after some events were delivered to the listener
Tracked(st, events) ==
  [ordersCreated |-> st.ordersCreated + CountType(events, "ORDER_CREATED"),
   ordersCompleted |-> st.ordersCompleted + Completions(events),
   ordersCancelled |-> st.ordersCancelled
                         + CountType(events, "ORDER_CANCELLED"),
   totalRevenue |-> st.totalRevenue + Revenue(events),
   lowStockAlerts |-> st.lowStockAlerts
                        + CountType(events, "PRODUCT_LOW_STOCK")]

\* C21 as stated: the statistics listener's counters equal the numbers of
\* ORDER_CREATED, ORDER_CANCELLED and PRODUCT_LOW_STOCK events delivered to
\* it, and ordersCompleted and totalRevenue the number and the order totals
\* of the delivered status changes to COMPLETED
C21_StatisticsTrackEvents ==
  statistics = Tracked(NoStatistics, Received("StatisticsObserver", deliveries))

\* C21, amended: every step that delivers events to the statistics listener
\* adds to its counters the numbers of ORDER_CREATED, ORDER_CANCELLED and
\* PRODUCT_LOW_STOCK events delivered, and for each delivered status change
\* to COMPLETED 1 to ordersCompleted and the order's total carried by the
\* event to totalRevenue; resetStatistics sets all five to 0; no other step
\* changes them
C21_StatisticsSinceReset ==
  [][IF lastCall'.op = "resetStatistics"
     THEN statistics' = NoStatistics
     ELSE statistics'
            = Tracked(statistics,
                      Received("StatisticsObserver", NewDeliveries))]_vars

\* a discounted order was completed after the statistics were reset: the
\* revenue is that order's total and no creation is counted
C21_Witness ==
  /\ lastCall.op = "updateOrderStatus" /\ lastCall.ok
  /\ statistics.ordersCompleted = 1 /\ statistics.ordersCreated = 0
  /\ statistics.totalRevenue = orderObj[lastCall.id].total
  /\ orderObj[lastCall.id].discount > 0
  /\ orderObj[lastCall.id].status = "COMPLETED"

\* C22: unless clearLogs is called, each operation of the orchestrator
\* (attachObserver included) only extends the audit log, by exactly the
\* events it published, type and payload, in publication order; so the log
\* is at any time the sequence of all events published since the last
\* clearLogs, or since construction
C22_AuditLogAppendOnly ==
  /\ [](/\ Len(logs) <= Len(published)
        /\ logs = SubSeq(published, Len(published) - Len(logs) + 1,
                         Len(published)))
  /\ [][lastCall'.op # "clearLogs" =>
          /\ logs' = logs \o SubSeq(published', Len(published) + 1,
                                    Len(published'))
          /\ SubSeq(logs', 1, Len(logs)) = logs]_vars

\* three events logged in publication order, the last one published by an
\* operation that failed because a listener attached later threw
C22_Witness ==
  /\ Len(logs) = 3 /\ logs = published
  /\ lastCall.error = "NotImplemented"
  /\ logs[1].type = "ORDER_CREATED"
  /\ logs[3].type = "ORDER_CANCELLED"

\* C23: Tiered on a subtotal s >= 0 gives 15% of s from 1000 on, 10% from
\* 500 up to below 1000, 5% from 200 up to below 500 and 0 below 200; on
\* 1000 it gives 150 where Percentage(10) gives 100
C23_TieredDiscount ==
  /\ [](lastCall.op = "calculate" /\ discountStrategy = Tiered =>
          LET s == lastCall.id IN
          100 * lastCall.result = IF s >= 1000 THEN 15 * s
                                  ELSE IF s >= 500 THEN 10 * s
                                  ELSE IF s >= 200 THEN 5 * s
                                  ELSE 0)
  /\ calculate(Tiered, 1000) = 150
  /\ calculate(Percentage(10), 1000) = 100

\* Tiered applied to the boundary 500, which is in the 10% tier
C23_Witness ==
  /\ lastCall.op = "calculate" /\ discountStrategy = Tiered
  /\ lastCall.id = 500 /\ lastCall.result = 50

\* C24: Coupon(code, p, minOrder) gives 0 below minOrder and
\* subtotal * p / 100 from minOrder on; minOrder 500 gives 0 on 300 and with
\* p = 10 gives 60 on 600
C24_CouponDiscount ==
  /\ [](lastCall.op = "calculate" /\ discountStrategy.type = "coupon" =>
          LET s == lastCall.id IN
          100 * lastCall.result
            = IF s < discountStrategy.minOrderValue THEN 0
              ELSE s * discountStrategy.discountPercentage)
  /\ NewCoupon([couponCode |-> "WELCOME10",
                discountPercentage |-> 10]).minOrderValue = 0
  /\ calculate(Coupon("WELCOME10", 10, 500), 300) = 0
  /\ calculate(Coupon("WELCOME10", 10, 500), 600) = 60

\* a coupon applied to exactly its minimum order value
C24_Witness ==
  /\ lastCall.op = "calculate" /\ discountStrategy = Coupon("WELCOME10", 10, 500)
  /\ lastCall.id = 500 /\ lastCall.result = 50

\* C25: Percentage(p) cannot be constructed for p < 0 or p > 100 and
\* FixedAmount(a) not for a < 0; Percentage(p) gives subtotal * p / 100 and
\* FixedAmount(a) gives min(a, subtotal), both between 0 and the subtotal
C25_PercentageAndFixed ==
  /\ [][/\ lastCall'.op = "PercentageDiscountStrategy" =>
             \A p \in Percentages :
                ConstructPercentage(p) =>
                  IF p < 0 \/ p > 100
                  THEN lastCall'.error = "InvalidArgument"
                       /\ discountStrategy' = discountStrategy
                  ELSE lastCall'.ok /\ discountStrategy' = Percentage(p)
        /\ lastCall'.op = "FixedAmountDiscountStrategy" =>
             \A a \in Amounts :
                ConstructFixedAmount(a) =>
                  IF a < 0
                  THEN lastCall'.error = "InvalidArgument"
                       /\ discountStrategy' = discountStrategy
                  ELSE lastCall'.ok /\ discountStrategy' = FixedAmount(a)]_vars
  /\ [](lastCall.op = "calculate" =>
          LET s == lastCall.id IN
          /\ discountStrategy.type = "percentage" =>
               /\ discountStrategy.percentage \in 0..100
               /\ 100 * lastCall.result = s * discountStrategy.percentage
               /\ lastCall.result \in 0..s
          /\ discountStrategy.type = "fixed" =>
               /\ discountStrategy.amount >= 0
               /\ lastCall.result = Min(discountStrategy.amount, s)
               /\ lastCall.result \in 0..s)

\* a fixed amount above the subtotal, capped at the subtotal
C25_Witness ==
  /\ lastCall.op = "calculate" /\ discountStrategy = FixedAmount(500)
  /\ lastCall.id = 300 /\ lastCall.result = 300

\* the quantity of product object p in the stored orders ids
RECURSIVE Placed(_, _)
Placed(ids, p) ==
  IF ids = <<>> THEN 0
  ELSE Ordered(orderObj[Head(ids)].items, p) + Placed(Tail(ids), p)

\* the quantity of product object p in the orders that calls in flight are
\* still building
RECURSIVE Building(_, _)
Building(ts, p) ==
  IF ts = {} THEN 0
  ELSE LET t == CHOOSE x \in ts : TRUE
       IN (IF tasks[t].pc \in {"findProduct", "updateProduct"}
           THEN Ordered(tasks[t].order.items, p) ELSE 0)
          + Building(ts \ {t}, p)

\* C26: when createOrder calls overlap, interleaved at their awaits, a call
\* passes the stock check of an item only against stock that covers the
\* item and lowers the stock in the same step, a call that fails the check
\* found less stock than it asked for, stock never becomes negative, and
\* the quantity of a product in stored orders and in orders being built
\* never exceeds the stock the product was created with
C26_CheckAndDecrementAtomic ==
  /\ [](\A p \in 1..Len(productObj) :
          /\ productObj[p].stock >= 0
          /\ productObj[p].stock + Placed(orders, p) + Building(Tasks, p)
               <= assigned.createdStock[p])
  /\ [][\A t \in Tasks :
          tasks[t].pc = "findProduct" /\ tasks'[t] # tasks[t] =>
            LET p == tasks[t].found
                q == tasks[t].arg.items[tasks[t].index].quantity
            IN IF tasks'[t].pc = "updateProduct"
               THEN /\ productObj[p].stock >= q
                    /\ productObj'[p].stock = productObj[p].stock - q
                    /\ Ordered(tasks'[t].order.items, p)
                         = Ordered(tasks[t].order.items, p) + q
               ELSE /\ tasks'[t].pc = "done"
                    /\ tasks'[t].error \in {"NotFound", "InsufficientStock"}
                    /\ tasks'[t].error = "InsufficientStock" =>
                         productObj[p].stock < q
                    /\ productObj' = productObj]_vars

\* two calls overlap on one product: the first has passed the check and
\* taken the whole stock and waits for the store, the second looked the
\* product up before that and has still to check
C26_Witness ==
  /\ tasks[1].pc = "updateProduct" /\ tasks[2].pc = "findProduct"
  /\ tasks[1].found = tasks[2].found /\ tasks[2].found # 0
  /\ tasks[2].index = 1
  /\ productObj[tasks[2].found].stock = 0
  /\ tasks[2].arg.items[1].quantity = Num(3)

ReadOps ==
  {"getOrderDetails", "getAllOrders", "getOrderStatistics", "getAuditLogs",
   "getRealtimeStatistics"}

\* C27: the five read methods change no order, no product, no id counter,
\* no listener state, publish nothing and leave the policy as it is;
\* getOrderDetails fails for an id without an order and otherwise returns
\* the stored order's JSON with the description of the policy now in force,
\* which the stored order does not hold
C27_ReadsArePure ==
  [][lastCall'.op \in ReadOps =>
       /\ UNCHANGED <<products, productObj, orders, orderObj, counters,
                      observers, logs, statistics, published, deliveries,
                      discountStrategy>>
       /\ lastCall'.op = "getOrderDetails" =>
            IF lastCall'.id \notin StoredOrders
            THEN ~lastCall'.ok /\ lastCall'.error = "NotFound"
            ELSE /\ lastCall'.ok
                 /\ lastCall'.result.order
                      = OrderToJSON(orderObj[lastCall'.id], productObj)
                 /\ lastCall'.result.discountStrategy
                      = getDescription(discountStrategy)
                 /\ ~Has(orderObj'[lastCall'.id], "discountStrategy")
       /\ lastCall'.op = "getAllOrders" =>
            lastCall'.result = [i \in 1..Len(orders) |-> orderObj[orders[i]]]
       /\ lastCall'.op = "getAuditLogs" => lastCall'.result = logs
       /\ lastCall'.op = "getRealtimeStatistics" =>
            lastCall'.result = statistics
       /\ lastCall'.op = "getOrderStatistics" =>
            lastCall'.result.total = Cardinality(StoredOrders)]_vars

\* getOrderDetails of an order made without a discount, read after the
\* policy became 10%: the description is the new policy's
C27_Witness ==
  /\ lastCall.op = "getOrderDetails" /\ lastCall.ok
  /\ lastCall.result.order.discount = 0
  /\ lastCall.result.order.subtotal > 0
  /\ lastCall.result.discountStrategy = getDescription(Percentage(10))
  /\ orderObj[lastCall.id].status = "COMPLETED"

\* the Database objects that exist
Instances ==
  (IF database.instance THEN 1 ELSE 0) + Len(database.direct)

\* C28: at most one Database object ever exists, and every new Database()
\* from outside the class fails, whatever getInstance() calls and direct
\* constructions came before
C28_SingleInstance ==
  /\ [](Instances <= 1)
  /\ [][lastCall'.op = "new Database" => ~lastCall'.ok]_vars

\* the quantity of product object p in the stored orders ids that are not
\* CANCELLED
RECURSIVE Held(_, _)
Held(ids, p) ==
  IF ids = <<>> THEN 0
  ELSE (IF orderObj[Head(ids)].status # "CANCELLED"
        THEN Ordered(orderObj[Head(ids)].items, p) ELSE 0)
       + Held(Tail(ids), p)

\* C29: stock conservation.  In every state reached by createOrder,
\* updateOrderStatus and cancelOrder, each stored product's stock plus its
\* quantities in the stored orders that are not CANCELLED equals the stock
\* the product was created with
C29_StockConservation ==
  \A p \in StoredProducts :
    productObj[p].stock + Held(orders, p) = assigned.createdStock[p]

\* the ORDER_CANCELLED events published for order id
Cancellations(id) ==
  {i \in 1..Len(published) : /\ published[i].type = "ORDER_CANCELLED"
                             /\ published[i].data.id = id}

\* C30: when two cancelOrder calls on the same open order have both ended,
\* overlapped or not, each product's stock has been restored once (stock
\* plus the quantities in the orders that are not CANCELLED is the stock the
\* product was created with) and one ORDER_CANCELLED event was published
\* for the order
C30_OverlappingCancelRestoresOnce ==
  (/\ \A t \in Tasks : tasks[t].pc = "done" /\ tasks[t].op = "cancelOrder"
   /\ tasks[1].arg = tasks[2].arg
   /\ \E t \in Tasks : tasks[t].error = "")
  => /\ \A p \in StoredProducts :
          productObj[p].stock + Held(orders, p) = assigned.createdStock[p]
     /\ Cardinality(Cancellations(tasks[1].arg)) = 1

\* C31: the discount of a persisted order is the amount the policy of its
\* own request computes: for every call that has persisted its order, the
\* order's discount is calculate of the strategy chosen from the call's
\* request body on the order's subtotal, whatever request was started in
\* between
C31_DiscountOfOwnPolicy ==
  \A t \in Tasks :
    (/\ tasks[t].pc \in {"created", "done"}
     /\ tasks[t].op = "createOrder"
     /\ tasks[t].pc = "done" => tasks[t].error = "")
    => LET id == IF tasks[t].pc = "done" THEN tasks[t].id
                 ELSE tasks[t].order.id
       IN orderObj[id].discount
            = calculate(ControllerStrategy(tasks[t].arg).strategy,
                        orderObj[id].subtotal)

\* C32: a createOrder call that fails (validation, product not found,
\* insufficient stock) publishes no event and delivers none, so the audit
\* log and the statistics counters are as before the call
C32_FailedCreatePublishesNothing ==
  [][(lastCall'.op = "createOrder" /\ ~lastCall'.ok) =>
       /\ published' = published
       /\ deliveries' = deliveries
       /\ logs' = logs
       /\ statistics' = statistics]_vars

\* C33: the stored orders have the ids 1..n, each under its own id, and the
\* statistics listener has counted n orders, where n is the order counter;
\* n goes up by one, with a new order stored under n, in exactly the steps
\* in which createOrder succeeds, so a failed createOrder stores no order
\* and takes no id
C33_FailedCreateTakesNoId ==
  /\ [](/\ StoredOrders = 1..counters.orders
        /\ \A id \in StoredOrders : orderObj[id].id = id
        /\ statistics.ordersCreated = counters.orders)
  /\ [][IF lastCall'.op = "createOrder" /\ lastCall'.ok
        THEN /\ counters'.orders = counters.orders + 1
             /\ lastCall'.id = counters'.orders
             /\ orders' = Append(orders, lastCall'.id)
             /\ statistics'.ordersCreated = statistics.ordersCreated + 1
        ELSE /\ counters'.orders = counters.orders
             /\ orders' = orders
             /\ statistics'.ordersCreated = statistics.ordersCreated]_vars

\* a createOrder that failed at its second item, after one order was made:
\* the stock is lowered, and still one order and one id
C33_Witness ==
  /\ lastCall.op = "createOrder" /\ lastCall.error = "InsufficientStock"
  /\ counters.orders = 1 /\ StoredOrders = {1}
  /\ statistics.ordersCreated = 1
  /\ statistics.lowStockAlerts >= 2

\* C34: the statistics listener agrees with the order store: totalRevenue
\* is getStatistics().totalSales, ordersCompleted the number of COMPLETED
\* orders and ordersCancelled the number of CANCELLED orders
C34_StatisticsAgreeWithStore ==
  LET store == OrderRepoStatistics(orders, orderObj)
  IN /\ statistics.totalRevenue = store.totalSales
     /\ statistics.ordersCompleted = store.completed
     /\ statistics.ordersCancelled = store.cancelled

\* some stored product other than skip has this name, ignoring letter case
NameTaken(name, skip) ==
  \E p \in StoredProducts \ {skip} :
     ToLowerCase(productObj[p].name) = ToLowerCase(name)

\* C35: no two stored products have names that are equal ignoring letter
\* case; a createProduct whose name is taken, and an updateProduct that
\* renames a product to a name another product has, fail and leave the
\* store and the product id counter unchanged
C35_NamesUniqueIgnoringCase ==
  /\ [](\A p \in StoredProducts : ~NameTaken(productObj[p].name, p))
  /\ [][lastCall'.op = "createProduct" =>
          \A d \in NamedProducts :
            (CreateProduct(d) /\ NameTaken(d.name, 0)) =>
              /\ ~lastCall'.ok
              /\ UNCHANGED <<products, productObj, counters>>]_vars
  /\ [][lastCall'.op = "updateProduct" =>
          \A id \in NameIds, d \in Renames :
            (/\ UpdateProduct(id, d)
             /\ id \in StoredProducts
             /\ Has(d, "name") /\ NameTaken(d.name, id)) =>
              /\ ~lastCall'.ok
              /\ UNCHANGED <<products, productObj, counters>>]_vars

\* a rename to another product's name in other letters has just failed,
\* with two products stored and one deleted before
C35_Witness ==
  /\ lastCall.op = "updateProduct" /\ lastCall.error = "DuplicateName"
  /\ Cardinality(StoredProducts) = 2
  /\ counters.products = 3
  /\ \E p \in StoredProducts : productObj[p].name = <<"K", "B", "d">>

\* C36: under every discount policy that can be constructed, each stored
\* order's discount is between 0 and its subtotal, and its total is the
\* subtotal minus the discount
C36_DiscountWithinSubtotal ==
  \A id \in StoredOrders :
    /\ 0 <= orderObj[id].discount
    /\ orderObj[id].discount <= orderObj[id].subtotal
    /\ orderObj[id].total = orderObj[id].subtotal - orderObj[id].discount

\* the keys are in the order in which they were created
InCreationOrder(keys) ==
  \A i, j \in 1..Len(keys) : i < j => keys[i] < keys[j]

\* C37: findAll of each store returns exactly the stored records in the
\* order of their creation; a create appends one record, an update (product
\* fields, stock, order status) changes no position, and a delete removes
\* that record only
C37_FindAllInsertionOrder ==
  /\ [](InCreationOrder(products) /\ InCreationOrder(orders))
  /\ [][/\ lastCall'.op = "ProductRepository.findAll" =>
             /\ Len(lastCall'.result) = Len(products)
             /\ \A i \in 1..Len(products) :
                  lastCall'.result[i] = productObj[products[i]]
        /\ lastCall'.op = "OrderRepository.findAll" =>
             /\ Len(lastCall'.result) = Len(orders)
             /\ \A i \in 1..Len(orders) :
                  lastCall'.result[i] = orderObj[orders[i]]]_vars
  /\ [][/\ (lastCall'.op = "createProduct" /\ lastCall'.ok) =>
             products' = Append(products, lastCall'.id)
        /\ (lastCall'.op = "createOrder" /\ lastCall'.ok) =>
             orders' = Append(orders, lastCall'.id)
        /\ (lastCall'.op = "ProductRepository.delete" /\ lastCall'.ok) =>
             /\ lastCall'.id \in StoredProducts
             /\ products' = SelectSeq(products, LAMBDA k : k # lastCall'.id)
        /\ (lastCall'.op = "OrderRepository.delete" /\ lastCall'.ok) =>
             /\ lastCall'.id \in StoredOrders
             /\ orders' = SelectSeq(orders, LAMBDA k : k # lastCall'.id)
        /\ lastCall'.op \notin {"createProduct", "ProductRepository.delete"}
              => products' = products
        /\ lastCall'.op \notin {"createOrder", "OrderRepository.delete"}
              => orders' = orders]_vars

\* findAll of two products after the first was repriced and an order
\* lowered its stock: the first is still first
C37_Witness ==
  /\ lastCall.op = "ProductRepository.findAll"
  /\ Len(lastCall.result) = 2
  /\ lastCall.result[1].id = 1 /\ lastCall.result[2].id = 2
  /\ lastCall.result[1].price = 200
  /\ lastCall.result[1].stock < assigned.createdStock[1]

ProductFields == {"name", "description", "price", "stock", "category"}

\* C38: an updateProduct that succeeds sets every supplied field (name,
\* description, price, stock, category) to the supplied value, also stock 0
\* and an empty description, and leaves the id and the fields not supplied
\* as they were
C38_UpdateSetsSuppliedFields ==
  [][(lastCall'.op = "updateProduct" /\ lastCall'.ok) =>
       \A id \in PipelineIds, d \in FieldUpdates :
         UpdateProduct(id, d) =>
           /\ productObj'[id].id = productObj[id].id
           /\ \A f \in ProductFields :
                productObj'[id][f] = IF Has(d, f) THEN d[f]
                                     ELSE productObj[id][f]]_vars

====
